---- MODULE Spec2Model ----
(***************************************************************************)
(* Business Rules Engine (rules_engine.py): the condition evaluator, the   *)
(* action interpreter, the rule evaluation loop and the ruleset cache.     *)
(*                                                                         *)
(* Python strings are sequences of one-character strings, so that the      *)
(* substring searches and the keyword splitting of the evaluator are       *)
(* computed character by character.  Python objects that can be shared     *)
(* (lists and dicts) live in `heap` and are named by their address.        *)
(***************************************************************************)
EXTENDS Integers, Sequences, FiniteSets, TLC

\* ------------------------------------------------------------------ strings

\* ASCII 32..126 in code point order (the grave accent, 96, is spelled out);
\* Ord gives the order str comparison uses.
Chars ==
  << " ", "!", "\"", "#", "$", "%", "&", "'", "(", ")", "*", "+", ",", "-",
     ".", "/", "0", "1", "2", "3", "4", "5", "6", "7", "8", "9", ":", ";",
     "<", "=", ">", "?", "@", "A", "B", "C", "D", "E", "F", "G", "H", "I",
     "J", "K", "L", "M", "N", "O", "P", "Q", "R", "S", "T", "U", "V", "W",
     "X", "Y", "Z", "[", "\\", "]", "^", "_", "BACKTICK", "a", "b", "c", "d", "e",
     "f", "g", "h", "i", "j", "k", "l", "m", "n", "o", "p", "q", "r", "s",
     "t", "u", "v", "w", "x", "y", "z", "{", "|", "}", "~" >>

Ord(c) == CHOOSE i \in 1..Len(Chars) : Chars[i] = c

\* str.lower() on one character
Lower(c) == IF Ord(c) >= Ord("A") /\ Ord(c) <= Ord("Z")
            THEN Chars[Ord(c) + 32] ELSE c

LowerStr(s) == [i \in 1..Len(s) |-> Lower(s[i])]

Whitespace == {" ", "\t", "\n", "\r"}

RECURSIVE LStrip(_)
LStrip(s) == IF s # <<>> /\ Head(s) \in Whitespace THEN LStrip(Tail(s)) ELSE s

RECURSIVE RStrip(_)
RStrip(s) == IF s # <<>> /\ s[Len(s)] \in Whitespace
             THEN RStrip(SubSeq(s, 1, Len(s) - 1)) ELSE s

\* str.strip()
Strip(s) == RStrip(LStrip(s))

\* expr[i:i+len(kw)] with Python's clipping of the slice, 1-based i
Slice(s, i, n) == SubSeq(s, i, IF i + n - 1 > Len(s) THEN Len(s) ELSE i + n - 1)

StartsWith(s, p) == Len(s) >= Len(p) /\ SubSeq(s, 1, Len(p)) = p

EndsWith(s, p) == Len(s) >= Len(p) /\ SubSeq(s, Len(s) - Len(p) + 1, Len(s)) = p

\* str.find(op): 0-based index of the first occurrence, -1 when absent
Find(s, p) ==
  LET hits == {i \in 1..(Len(s) - Len(p) + 1) : SubSeq(s, i, i + Len(p) - 1) = p}
  IN IF hits = {} THEN -1
     ELSE (CHOOSE i \in hits : \A j \in hits : i <= j) - 1

\* str.split("."), the separator being one character
RECURSIVE SplitDot(_, _)
SplitDot(s, cur) ==
  IF s = <<>> THEN <<cur>>
  ELSE IF Head(s) = "." THEN <<cur>> \o SplitDot(Tail(s), <<>>)
  ELSE SplitDot(Tail(s), Append(cur, Head(s)))

\* ------------------------------------------------------------------- values

\* Fixed point scale of float values: round(x, 4) keeps four decimals.
Scale == 10000

\* A Python value.  kind: "null", "bool" (n is 0 or 1), "int" (n is the
\* integer), "float" (n is the value times Scale), "str" (s is the text),
\* "ref" (n is the heap address of a list or a dict).  A value written out
\* in a document or handed over by a caller is "list" or "dict" with its
\* entries in ent; entries are [k |-> key, v |-> value], k = <<>> in a list.
NullV == [kind |-> "null", n |-> 0, s |-> <<>>, ent |-> <<>>]
BoolV(b) == [kind |-> "bool", n |-> IF b THEN 1 ELSE 0, s |-> <<>>, ent |-> <<>>]
IntV(i) == [kind |-> "int", n |-> i, s |-> <<>>, ent |-> <<>>]
FloatV(x) == [kind |-> "float", n |-> x, s |-> <<>>, ent |-> <<>>]
StrV(str) == [kind |-> "str", n |-> 0, s |-> str, ent |-> <<>>]
RefV(a) == [kind |-> "ref", n |-> a, s |-> <<>>, ent |-> <<>>]
ListV(items) == [kind |-> "list", n |-> 0, s |-> <<>>,
                 ent |-> [i \in 1..Len(items) |-> [k |-> <<>>, v |-> items[i]]]]
DictV(entries) == [kind |-> "dict", n |-> 0, s |-> <<>>, ent |-> entries]
Entry(key, val) == [k |-> key, v |-> val]

\* a heap object: a list or a dict (insertion ordered) of entries
Obj(kind, entries) == [kind |-> kind, ent |-> entries]

\* dict.get(key): the value of the first entry with that key, None if absent
HasKey(entries, key) == \E i \in 1..Len(entries) : entries[i].k = key
KeyIndex(entries, key) == CHOOSE i \in 1..Len(entries) : entries[i].k = key
DictGet(entries, key, default) ==
  IF HasKey(entries, key) THEN entries[KeyIndex(entries, key)].v ELSE default

\* ctx[key] = value: replaces in place, or inserts at the end
DictSet(entries, key, val) ==
  IF HasKey(entries, key)
  THEN [entries EXCEPT ![KeyIndex(entries, key)].v = val]
  ELSE Append(entries, Entry(key, val))

\* The structure a value denotes, every reference replaced by the object it
\* names: what == compares and what a caller sees.
RECURSIVE Deep(_, _)
Deep(h, v) ==
  IF v.kind = "ref"
  THEN [kind |-> h[v.n].kind, n |-> 0, s |-> <<>>,
        ent |-> [i \in 1..Len(h[v.n].ent) |->
                   [k |-> h[v.n].ent[i].k, v |-> Deep(h, h[v.n].ent[i].v)]]]
  ELSE v

\* Builds the objects of a written-out value on the heap (what yaml.safe_load,
\* a JSON decoder or copy.deepcopy produce): every list and dict is a fresh
\* object.  Returns the new heap and the value naming the root.
RECURSIVE Build(_, _)
RECURSIVE BuildEntries(_, _, _)
BuildEntries(h, entries, acc) ==
  IF entries = <<>> THEN [h |-> h, ent |-> acc]
  ELSE LET r == Build(h, Head(entries).v)
       IN BuildEntries(r.h, Tail(entries),
                       Append(acc, [k |-> Head(entries).k, v |-> r.v]))
Build(h, dv) ==
  IF dv.kind \in {"list", "dict"}
  THEN LET r == BuildEntries(h, dv.ent, <<>>)
       IN [h |-> Append(r.h, Obj(dv.kind, r.ent)), v |-> RefV(Len(r.h) + 1)]
  ELSE [h |-> h, v |-> dv]

\* --------------------------------------------------------------- comparison

IsNumeric(v) == v.kind \in {"int", "float", "bool"}

\* the number a numeric value stands for, times Scale (True is 1, False is 0)
Num(v) == IF v.kind = "float" THEN v.n ELSE v.n * Scale

\* -1, 0, 1 as str a is below, equal to, above str b (code point order)
RECURSIVE StrCmp(_, _)
StrCmp(a, b) ==
  IF a = <<>> /\ b = <<>> THEN 0
  ELSE IF a = <<>> THEN -1
  ELSE IF b = <<>> THEN 1
  ELSE IF Ord(Head(a)) < Ord(Head(b)) THEN -1
  ELSE IF Ord(Head(a)) > Ord(Head(b)) THEN 1
  ELSE StrCmp(Tail(a), Tail(b))

\* Python's == on two structures (a, b are Deep values): numbers by value
\* across int, float and bool, lists element by element, dicts key by key
\* whatever the insertion order, values of unrelated types unequal.
RECURSIVE PyEq(_, _)
PyEq(a, b) ==
  IF IsNumeric(a) /\ IsNumeric(b) THEN Num(a) = Num(b)
  ELSE IF a.kind # b.kind THEN FALSE
  ELSE IF a.kind = "str" THEN a.s = b.s
  ELSE IF a.kind = "null" THEN TRUE
  ELSE IF a.kind = "list"
    THEN Len(a.ent) = Len(b.ent)
         /\ \A i \in 1..Len(a.ent) : PyEq(a.ent[i].v, b.ent[i].v)
  ELSE \* dict
    Len(a.ent) = Len(b.ent)
    /\ \A i \in 1..Len(a.ent) :
         /\ HasKey(b.ent, a.ent[i].k)
         /\ PyEq(a.ent[i].v, DictGet(b.ent, a.ent[i].k, NullV))

IntOp(op, x, y) ==
  CASE op = <<">">> -> x > y
    [] op = <<"<">> -> x < y
    [] op = <<">", "=">> -> x >= y
    [] op = <<"<", "=">> -> x <= y
    [] op = <<"=", "=">> -> x = y
    [] op = <<"!", "=">> -> x # y

\* operator.gt / lt / ge / le on two structures: "T", "F", or "E" when
\* Python raises TypeError (no order between the two types).
RECURSIVE PyOrder(_, _, _)
PyOrder(op, a, b) ==
  LET tf(x) == IF x THEN "T" ELSE "F"
      n == IF Len(a.ent) < Len(b.ent) THEN Len(a.ent) ELSE Len(b.ent)
      diff == {i \in 1..n : ~PyEq(a.ent[i].v, b.ent[i].v)}
      first == CHOOSE i \in diff : \A j \in diff : i <= j
  IN IF IsNumeric(a) /\ IsNumeric(b) THEN tf(IntOp(op, Num(a), Num(b)))
     ELSE IF a.kind = "str" /\ b.kind = "str" THEN tf(IntOp(op, StrCmp(a.s, b.s), 0))
     ELSE IF a.kind = "list" /\ b.kind = "list"
       THEN IF diff # {} THEN PyOrder(op, a.ent[first].v, b.ent[first].v)
            ELSE tf(IntOp(op, Len(a.ent), Len(b.ent)))
     ELSE "E"

\* self.OPS[op_str](left, right) inside try/except TypeError: return False
ApplyOp(op, a, b) ==
  IF op = <<"=", "=">> THEN PyEq(a, b)
  ELSE IF op = <<"!", "=">> THEN ~PyEq(a, b)
  ELSE PyOrder(op, a, b) = "T"

\* bool(value)
Truthy(h, v) ==
  CASE v.kind = "null" -> FALSE
    [] v.kind \in {"bool", "int", "float"} -> v.n # 0
    [] v.kind = "str" -> v.s # <<>>
    [] v.kind = "ref" -> h[v.n].ent # <<>>

\* ----------------------------------------------------------------- literals

Digits == {"0", "1", "2", "3", "4", "5", "6", "7", "8", "9"}

IsDigits(s) == s # <<>> /\ \A i \in 1..Len(s) : s[i] \in Digits

RECURSIVE DigitsVal(_)
DigitsVal(s) == IF s = <<>> THEN 0
                ELSE DigitsVal(SubSeq(s, 1, Len(s) - 1)) * 10 + (Ord(s[Len(s)]) - Ord("0"))

Unsigned(s) == IF s # <<>> /\ Head(s) \in {"+", "-"} THEN Tail(s) ELSE s
Sign(s) == IF s # <<>> /\ Head(s) = "-" THEN -1 ELSE 1

\* int(token) succeeds: an optional sign and decimal digits
IsIntLit(s) == IsDigits(Unsigned(s))
IntLit(s) == Sign(s) * DigitsVal(Unsigned(s))

\* float(token) succeeds: an optional sign, digits with one decimal point
\* (exponents, inf and nan are outside the tokens drawn here)
IsFloatLit(s) ==
  LET u == Unsigned(s)
      d == Find(u, <<".">>)
      ip == SubSeq(u, 1, d)
      fp == SubSeq(u, d + 2, Len(u))
  IN d # -1 /\ (ip = <<>> \/ IsDigits(ip)) /\ (fp = <<>> \/ IsDigits(fp))
     /\ (ip # <<>> \/ fp # <<>>)

Pad4(fp) == SubSeq(fp \o <<"0", "0", "0", "0">>, 1, 4)

FloatLit(s) ==
  LET u == Unsigned(s)
      d == Find(u, <<".">>)
  IN Sign(s) * (DigitsVal(SubSeq(u, 1, d)) * Scale + DigitsVal(Pad4(SubSeq(u, d + 2, Len(u)))))

\* ------------------------------------------------------------ SafeEvaluator

\* _split_on_keyword: the while loop, i counted from 1
RECURSIVE SplitLoop(_, _, _, _, _, _)
SplitLoop(expr, kw, i, depth, current, parts) ==
  IF i > Len(expr) THEN Append(parts, current)
  ELSE IF expr[i] \in {"(", "'", "\""}
    THEN SplitLoop(expr, kw, i + 1, depth + 1, Append(current, expr[i]), parts)
  ELSE IF expr[i] \in {")", "'", "\""} /\ depth > 0
    THEN SplitLoop(expr, kw, i + 1, depth - 1, Append(current, expr[i]), parts)
  ELSE IF depth = 0 /\ LowerStr(Slice(expr, i, Len(kw))) = kw
    THEN SplitLoop(expr, kw, i + Len(kw), depth, <<>>, Append(parts, current))
  ELSE SplitLoop(expr, kw, i + 1, depth, Append(current, expr[i]), parts)

split_on_keyword(expr, kw) == SplitLoop(expr, kw, 1, 0, <<>>, <<>>)

KwOr == <<" ", "o", "r", " ">>
KwAnd == <<" ", "a", "n", "d", " ">>
KwNot == <<"n", "o", "t", " ">>

\* the operators in the order _parse_comparison tries them
OpOrder == << <<">", "=">>, <<"<", "=">>, <<"!", "=">>, <<"=", "=">>, <<">">>, <<"<">> >>

\* the context lookup of _resolve_value: walks the dotted path
RECURSIVE WalkPath(_, _, _)
WalkPath(h, val, parts) ==
  IF parts = <<>> THEN val
  ELSE IF val.kind = "ref" /\ h[val.n].kind = "dict"
    THEN WalkPath(h, DictGet(h[val.n].ent, Head(parts), NullV), Tail(parts))
  ELSE NullV

\* _resolve_value(token) against the context dict at address c
resolve_value(tok, h, c) ==
  LET token == Strip(tok)
  IN IF token = <<"t", "r", "u", "e">> THEN BoolV(TRUE)
     ELSE IF token = <<"f", "a", "l", "s", "e">> THEN BoolV(FALSE)
     ELSE IF token = <<"n", "u", "l", "l">> THEN NullV
     ELSE IF \/ (StartsWith(token, <<"'">>) /\ EndsWith(token, <<"'">>))
             \/ (StartsWith(token, <<"\"">>) /\ EndsWith(token, <<"\"">>))
       THEN StrV(SubSeq(token, 2, Len(token) - 1))
     ELSE IF IsIntLit(token) THEN IntV(IntLit(token))
     ELSE IF IsFloatLit(token) THEN FloatV(FloatLit(token))
     ELSE WalkPath(h, RefV(c), SplitDot(token, <<>>))

RECURSIVE evaluate(_, _, _)
RECURSIVE parse_or(_, _, _)
RECURSIVE parse_and(_, _, _)
RECURSIVE parse_not(_, _, _)
RECURSIVE parse_comparison(_, _, _)

\* the for loop over the operators, k the position in OpOrder
RECURSIVE CompareLoop(_, _, _, _)
CompareLoop(expr, h, c, k) ==
  IF k > Len(OpOrder) THEN Truthy(h, resolve_value(expr, h, c))
  ELSE LET op == OpOrder[k]
           idx == Find(expr, op)
           left == resolve_value(SubSeq(expr, 1, idx), h, c)
           right == resolve_value(SubSeq(expr, idx + Len(op) + 1, Len(expr)), h, c)
       IN IF idx = -1 THEN CompareLoop(expr, h, c, k + 1)
          ELSE ApplyOp(op, Deep(h, left), Deep(h, right))

parse_comparison(expr, h, c) ==
  IF StartsWith(expr, <<"(">>) /\ EndsWith(expr, <<")">>)
  THEN evaluate(SubSeq(expr, 2, Len(expr) - 1), h, c)
  ELSE CompareLoop(expr, h, c, 1)

parse_not(expr, h, c) ==
  IF StartsWith(expr, KwNot)
  THEN ~parse_comparison(Strip(SubSeq(expr, 5, Len(expr))), h, c)
  ELSE parse_comparison(expr, h, c)

parse_and(expr, h, c) ==
  LET parts == split_on_keyword(expr, KwAnd)
  IN IF Len(parts) > 1
     THEN \A i \in 1..Len(parts) : parse_not(Strip(parts[i]), h, c)
     ELSE parse_not(expr, h, c)

parse_or(expr, h, c) ==
  LET parts == split_on_keyword(expr, KwOr)
  IN IF Len(parts) > 1
     THEN \E i \in 1..Len(parts) : parse_and(Strip(parts[i]), h, c)
     ELSE parse_and(expr, h, c)

\* SafeEvaluator.evaluate on a str expression
evaluate(expression, h, c) == parse_or(Strip(expression), h, c)

\* ------------------------------------------------------------- RuleExecutor

\* round half to even of num / den, den > 0
RoundDiv(num, den) ==
  LET a == IF num < 0 THEN -num ELSE num
      q == a \div den
      r == a % den
      m == IF 2 * r > den \/ (2 * r = den /\ q % 2 = 1) THEN q + 1 ELSE q
  IN IF num < 0 THEN -m ELSE m

\* round(a * b, 4) and round(a / b, 4) on values scaled by Scale; the split
\* of a keeps the products within the integers of the checker
MulRound(a, b) ==
  LET hi == (a \div Scale) * b
      lo == (a % Scale) * b
      fl == hi + (lo \div Scale)
      r == lo % Scale
  IN IF 2 * r > Scale \/ (2 * r = Scale /\ fl % 2 = 1) THEN fl + 1 ELSE fl
DivRound(a, b) ==
  LET sgn == IF b < 0 THEN -1 ELSE 1
      d == sgn * b
      x == sgn * a
  IN (x \div d) * Scale + RoundDiv((x % d) * Scale, d)

\* float(v) raises: TypeError on None, list, dict; ValueError on a str that
\* is no number
FloatRaises(v) ==
  \/ v.kind \in {"null", "ref", "list", "dict"}
  \/ v.kind = "str" /\ ~IsIntLit(Strip(v.s)) /\ ~IsFloatLit(Strip(v.s))

\* float(v), scaled
ToFloat(v) ==
  IF v.kind = "str"
  THEN IF IsIntLit(Strip(v.s)) THEN IntLit(Strip(v.s)) * Scale ELSE FloatLit(Strip(v.s))
  ELSE Num(v)

\* a log line: the rule, the operation, the field, and for LOG the message
LogLine(rule_id, op, field, text) ==
  [rule_id |-> rule_id, op |-> op, field |-> field, text |-> text]

\* action.get("by", default) / action.get("value")
ArgOr(action, default) == IF action.hasArg THEN action.arg ELSE default

\* heap h with the dict at address c assigned ctx[field] = val
SetField(h, c, field, val) == [h EXCEPT ![c].ent = DictSet(h[c].ent, field, val)]

\* the arithmetic actions: ctx[field] = round(float(ctx.get(field, 0)) op float(by), 4)
Arith(action, h, c, rule_id, op, default) ==
  LET cur == DictGet(h[c].ent, action.field, IntV(0))
      by == ArgOr(action, IntV(default))
      a == ToFloat(cur)
      b == ToFloat(by)
      res == CASE op = "MULTIPLY" -> MulRound(a, b)
               [] op = "ADD" -> a + b
               [] op = "SUBTRACT" -> a - b
  IN IF FloatRaises(cur) \/ FloatRaises(by)
     THEN [h |-> h, raised |-> TRUE, log |-> <<>>]
     ELSE [h |-> SetField(h, c, action.field, FloatV(res)), raised |-> FALSE,
           log |-> <<LogLine(rule_id, op, action.field, <<>>)>>]

\* DIVIDE without the test of the divisor: ZeroDivisionError on zero
Divide_unguarded(action, h, c, rule_id) ==
  LET cur == DictGet(h[c].ent, action.field, IntV(0))
      by == ArgOr(action, IntV(1))
  IN IF FloatRaises(by) \/ FloatRaises(cur) \/ ToFloat(by) = 0
     THEN [h |-> h, raised |-> TRUE, log |-> <<>>]
     ELSE [h |-> SetField(h, c, action.field,
                          FloatV(DivRound(ToFloat(cur), ToFloat(by)))),
           raised |-> FALSE,
           log |-> <<LogLine(rule_id, "DIVIDE", action.field, <<>>)>>]

\* DIVIDE: the division only when float(by) is not zero; the log line either way
Divide(action, h, c, rule_id) ==
  LET cur == DictGet(h[c].ent, action.field, IntV(0))
      by == ArgOr(action, IntV(1))
  IN IF FloatRaises(by) THEN [h |-> h, raised |-> TRUE, log |-> <<>>]
     ELSE IF ToFloat(by) # 0
       THEN IF FloatRaises(cur) THEN [h |-> h, raised |-> TRUE, log |-> <<>>]
            ELSE [h |-> SetField(h, c, action.field,
                                 FloatV(DivRound(ToFloat(cur), ToFloat(by)))),
                  raised |-> FALSE,
                  log |-> <<LogLine(rule_id, "DIVIDE", action.field, <<>>)>>]
     ELSE [h |-> h, raised |-> FALSE,
           log |-> <<LogLine(rule_id, "DIVIDE", action.field, <<>>)>>]

\* isinstance(ctx.get(field), list)
IsList(h, v) == v.kind = "ref" /\ h[v.n].kind = "list"

AppendAction(action, h, c, rule_id) ==
  LET cur == DictGet(h[c].ent, action.field, NullV)
      value == ArgOr(action, NullV)
      \* ctx[field] = [] when the field holds no list
      h1 == IF IsList(h, cur) THEN h
            ELSE SetField(Append(h, Obj("list", <<>>)), c, action.field,
                          RefV(Len(h) + 1))
      a == DictGet(h1[c].ent, action.field, NullV).n
  IN [h |-> [h1 EXCEPT ![a].ent = Append(@, Entry(<<>>, value))],
      raised |-> FALSE,
      log |-> <<LogLine(rule_id, "APPEND", action.field, <<>>)>>]

\* ctx[field] = value: the value object of the action itself is stored
SetAction(action, h, c, rule_id) ==
  [h |-> SetField(h, c, action.field, ArgOr(action, NullV)), raised |-> FALSE,
   log |-> <<LogLine(rule_id, "SET", action.field, <<>>)>>]

\* str(int)
RECURSIVE NatStr(_)
NatStr(n) == IF n < 10 THEN <<Chars[Ord("0") + n]>>
             ELSE Append(NatStr(n \div 10), Chars[Ord("0") + (n % 10)])
IntStr(n) == IF n < 0 THEN <<"-">> \o NatStr(-n) ELSE NatStr(n)

RECURSIVE DropZeros(_)
DropZeros(s) == IF Len(s) > 1 /\ s[Len(s)] = "0"
                THEN DropZeros(SubSeq(s, 1, Len(s) - 1)) ELSE s

\* str(float) of a value with four decimals: 360.0, 0.9, -1.25
FloatStr(x) ==
  LET a == IF x < 0 THEN -x ELSE x
      frac == NatStr(a % Scale)
      frac4 == SubSeq(<<"0", "0", "0", "0">>, 1, 4 - Len(frac)) \o frac
  IN (IF x < 0 THEN <<"-">> ELSE <<>>) \o NatStr(a \div Scale) \o <<".">>
     \o DropZeros(frac4)

\* str(value) when quoted = FALSE, repr(value) when TRUE (they differ on str
\* only; the strings drawn here hold no quote and no backslash)
RECURSIVE PyStr(_, _)
RECURSIVE JoinEntries(_, _, _)
JoinEntries(ent, isDict, i) ==
  IF i > Len(ent) THEN <<>>
  ELSE (IF i > 1 THEN <<",", " ">> ELSE <<>>)
       \o (IF isDict THEN <<"'">> \o ent[i].k \o <<"'", ":", " ">> ELSE <<>>)
       \o PyStr(ent[i].v, TRUE) \o JoinEntries(ent, isDict, i + 1)
PyStr(d, quoted) ==
  CASE d.kind = "null" -> <<"N", "o", "n", "e">>
    [] d.kind = "bool" -> IF d.n = 1 THEN <<"T", "r", "u", "e">>
                          ELSE <<"F", "a", "l", "s", "e">>
    [] d.kind = "int" -> IntStr(d.n)
    [] d.kind = "float" -> FloatStr(d.n)
    [] d.kind = "str" -> IF quoted THEN <<"'">> \o d.s \o <<"'">> ELSE d.s
    [] d.kind = "list" -> <<"[">> \o JoinEntries(d.ent, FALSE, 1) \o <<"]">>
    [] d.kind = "dict" -> <<"{">> \o JoinEntries(d.ent, TRUE, 1) \o <<"}">>

\* str.replace(old, new), old not empty
RECURSIVE Replace(_, _, _)
Replace(msg, old, new) ==
  IF Len(msg) < Len(old) THEN msg
  ELSE IF SubSeq(msg, 1, Len(old)) = old
    THEN new \o Replace(SubSeq(msg, Len(old) + 1, Len(msg)), old, new)
  ELSE <<Head(msg)>> \o Replace(Tail(msg), old, new)

\* for key, val in ctx.items(): message = message.replace("{" + key + "}", str(val))
RECURSIVE Interpolate(_, _, _, _)
Interpolate(message, h, ent, i) ==
  IF i > Len(ent) THEN message
  ELSE Interpolate(Replace(message, <<"{">> \o ent[i].k \o <<"}">>,
                           PyStr(Deep(h, ent[i].v), FALSE)),
                   h, ent, i + 1)

LogAction(action, h, c, rule_id) ==
  [h |-> h, raised |-> FALSE,
   log |-> <<LogLine(rule_id, "LOG", <<>>,
                     Interpolate(PyStr(Deep(h, action.arg), FALSE), h, h[c].ent, 1))>>]

\* RuleExecutor._execute_action: the new heap, whether it raised, and the log
\* line (none for a descriptor with no known operation key)
execute_action(action, h, c, rule_id) ==
  CASE action.op = "set" -> SetAction(action, h, c, rule_id)
    [] action.op = "multiply" -> Arith(action, h, c, rule_id, "MULTIPLY", 1)
    [] action.op = "add" -> Arith(action, h, c, rule_id, "ADD", 0)
    [] action.op = "subtract" -> Arith(action, h, c, rule_id, "SUBTRACT", 0)
    [] action.op = "divide" -> Divide(action, h, c, rule_id)
    [] action.op = "append" -> AppendAction(action, h, c, rule_id)
    [] action.op = "log" -> LogAction(action, h, c, rule_id)
    [] OTHER -> [h |-> h, raised |-> FALSE, log |-> <<>>]

\* RuleExecutor.execute: the actions in order on the same context; an
\* exception of an action leaves the loop
RECURSIVE ExecLoop(_, _, _, _, _, _)
ExecLoop(actions, i, h, c, rule_id, logs) ==
  IF i > Len(actions) THEN [h |-> h, raised |-> FALSE, logs |-> logs]
  ELSE LET r == execute_action(actions[i], h, c, rule_id)
       IN IF r.raised THEN [h |-> r.h, raised |-> TRUE, logs |-> logs]
          ELSE ExecLoop(actions, i + 1, r.h, c, rule_id, logs \o r.log)

execute(actions, h, c, rule_id) == ExecLoop(actions, 1, h, c, rule_id, <<>>)

\* ---------------------------------------------------------------- documents

\* The text of a rule document, as the structure yaml.safe_load makes of it.
\* form "map": a mapping, with or without the `ruleset` key (hasRuleset) and
\* with the `rules` key absent, null, or a list (rulesKind); form "null": a
\* text that loads as None.
Text(mode, rules) ==
  [form |-> "map", hasRuleset |-> TRUE, mode |-> mode, rulesKind |-> "list",
   rules |-> rules]
TextNoRules == [form |-> "map", hasRuleset |-> TRUE, mode |-> "all",
                rulesKind |-> "absent", rules |-> <<>>]
TextNoRuleset == [form |-> "map", hasRuleset |-> FALSE, mode |-> "all",
                  rulesKind |-> "list", rules |-> <<>>]

\* a rule: priority and condition may be absent; the condition is any value
Rule(id, hasPriority, priority, hasCondition, condition, actions) ==
  [id |-> id, hasPriority |-> hasPriority, priority |-> priority,
   hasCondition |-> hasCondition, condition |-> condition, actions |-> actions]

\* an action descriptor: the operation key with its field, the `by` or
\* `value` payload (absent when hasArg is FALSE); for log, arg is the message
Action(op, field, hasArg, arg) ==
  [op |-> op, field |-> field, hasArg |-> hasArg, arg |-> arg]

\* r.get("priority", 50)
DefaultPriority == 50
Priority(r) == IF r.hasPriority THEN r.priority ELSE DefaultPriority

\* an insertion that puts a rule before the rules of equal priority
RECURSIVE InsertRule_unstable(_, _)
InsertRule_unstable(sorted, r) ==
  IF sorted = <<>> THEN <<r>>
  ELSE IF Priority(sorted[Len(sorted)]) < Priority(r) THEN Append(sorted, r)
  ELSE Append(InsertRule_unstable(SubSeq(sorted, 1, Len(sorted) - 1), r),
              sorted[Len(sorted)])

\* list.sort(key=priority): stable, ascending
RECURSIVE InsertRule(_, _)
InsertRule(sorted, r) ==
  IF sorted = <<>> THEN <<r>>
  ELSE IF Priority(sorted[Len(sorted)]) <= Priority(r) THEN Append(sorted, r)
  ELSE Append(InsertRule(SubSeq(sorted, 1, Len(sorted) - 1), r), sorted[Len(sorted)])

RECURSIVE SortRules(_)
SortRules(rules) ==
  IF rules = <<>> THEN <<>>
  ELSE InsertRule(SortRules(SubSeq(rules, 1, Len(rules) - 1)), rules[Len(rules)])

\* yaml.safe_load on the rules: every payload list or dict is a new object
RECURSIVE LoadActions(_, _, _)
LoadActions(h, actions, acc) ==
  IF actions = <<>> THEN [h |-> h, actions |-> acc]
  ELSE LET r == Build(h, Head(actions).arg)
       IN LoadActions(r.h, Tail(actions), Append(acc, [Head(actions) EXCEPT !.arg = r.v]))

RECURSIVE LoadRules(_, _, _)
LoadRules(h, rules, acc) ==
  IF rules = <<>> THEN [h |-> h, rules |-> acc]
  ELSE LET r == LoadActions(h, Head(rules).actions, <<>>)
       IN LoadRules(r.h, Tail(rules), Append(acc, [Head(rules) EXCEPT !.actions = r.actions]))

\* the checks without the one of the `rules` key
Validate_rulesetOnly(text) ==
  IF text.form # "map" THEN "TypeError"
  ELSE IF ~text.hasRuleset THEN "ValueError"
  ELSE "ok"

\* the required-key checks of load_ruleset and save_ruleset_yaml:
\* "TypeError" when the text is no mapping, "ValueError" when a key is missing
Validate(text) ==
  IF text.form # "map" THEN "TypeError"
  ELSE IF ~text.hasRuleset THEN "ValueError"
  ELSE IF text.rulesKind = "absent" THEN "ValueError"
  ELSE "ok"

\* load_ruleset from `with open` to the cache store: the parsed document with
\* its rules sorted, or the error raised (None has no sort)
ParseDocument(h, text, mtime, now) ==
  LET r == LoadRules(h, text.rules, <<>>)
  IN IF Validate(text) # "ok" THEN [status |-> Validate(text), h |-> h]
     ELSE IF text.rulesKind = "null" THEN [status |-> "AttributeError", h |-> h]
     ELSE [status |-> "ok", h |-> r.h,
           doc |-> [priority_mode |-> text.mode, rules |-> SortRules(r.rules),
                    mtime |-> mtime, loaded_at |-> now]]

\* the document with every payload replaced by the structure it denotes
DeepDoc(h, doc) ==
  [doc EXCEPT !.rules =
     [i \in 1..Len(doc.rules) |->
        [doc.rules[i] EXCEPT !.actions =
           [j \in 1..Len(doc.rules[i].actions) |->
              [doc.rules[i].actions[j] EXCEPT
                 !.arg = Deep(h, doc.rules[i].actions[j].arg)]]]]]

\* -------------------------------------------------------------------- state

VARIABLES
  heap,           \* the list and dict objects, by address
  files,          \* the rules directory: ruleset name -> file (text, mtime)
  clock,          \* the time os.path.getmtime and utcnow read
  docs,           \* the document objects load_ruleset has built, by identity
  cache,          \* RulesEngine._cache: name -> index in docs, 0 when absent
  pc,             \* where the evaluate call stands: idle, loop, returned, raised
  call,           \* its arguments, the caller's record, the document it holds,
                  \* and the context as it was before the first rule (ctx0)
  ctx,            \* address of its context dict
  idx,            \* position of the for loop in the rules
  rules_fired, rules_skipped, execution_log,
  result,         \* what the last finished call returned or raised
  inputBefore,    \* the caller's record as it was when the call started
  loadedSnap,     \* for each document object, its content when it was loaded
                  \* and the text it was loaded from
  prev,           \* the call that returned before the current one
  ncalls,         \* calls started
  nsaves,         \* save_ruleset_yaml calls made
  lastSave,       \* what the last save_ruleset_yaml returned or raised
  expr,           \* a condition text handed to SafeEvaluator.evaluate
  verdict,        \* what it returned
  thr,            \* the threads calling load_ruleset and save_ruleset_yaml
  history,        \* the texts written to the file, in order
  doneIdx,        \* the last of them whose save has returned
  nops,           \* load and save calls begun by the threads
  acts,           \* an action list handed to RuleExecutor.execute
  batch,          \* a batch request: the ruleset name and the records
  results,        \* the result entries the batch has collected
  listing,        \* what os.listdir returned to list_rulesets
  rulesets        \* the summaries list_rulesets has collected

vars == <<heap, files, clock, docs, cache, pc, call, ctx, idx, rules_fired,
          rules_skipped, execution_log, result, inputBefore, loadedSnap, prev,
          ncalls, nsaves, lastSave, expr, verdict, thr, history, doneIdx, nops,
          acts, batch, results, listing, rulesets>>

\* the variables of the evaluator on its own and of the threads
auxVars == <<expr, verdict, thr, history, doneIdx, nops, acts, batch,
             results, listing, rulesets>>

evalVars == <<pc, call, ctx, idx, rules_fired, rules_skipped, execution_log,
              result, inputBefore, prev, ncalls>>

\* ---------------------------------------------------- names and conditions

\* context keys
K_tags == <<"t", "a", "g", "s">>
K_x == <<"x">>
K_lst == <<"l", "s", "t">>
K_seen == <<"s", "e", "e", "n">>
K_tier == <<"t", "i", "e", "r">>
K_region == <<"r", "e", "g", "i", "o", "n">>
K_accidents == <<"a", "c", "c", "i", "d", "e", "n", "t", "s">>
K_nest == <<"n", "e", "s", "t">>

\* condition texts of the rule documents
C_empty == <<>>
C_x_gt_0 == <<"x", " ", ">", " ", "0">>
C_x_gt_5 == <<"x", " ", ">", " ", "5">>
C_x_ge_0 == <<"x", " ", ">", "=", " ", "0">>
C_lst == <<"l", "s", "t">>
C_tier_hi == <<"t", "i", "e", "r", " ", "=", "=", " ", "'", "h", "i", "'">>
C_south_and_zero == <<"r", "e", "g", "i", "o", "n", " ", "=", "=", " ", "'", "s", "o", "u", "t", "h", "'", " ", "a", "n", "d", " ", "a", "c", "c", "i", "d", "e", "n", "t", "s", " ", "=", "=", " ", "0">>
C_region_south_dq == <<"r", "e", "g", "i", "o", "n", " ", "=", "=", " ", "\"", "s", "o", "u", "t", "h", "\"">>
C_region_south == <<"r", "e", "g", "i", "o", "n", " ", "=", "=", " ", "'", "s", "o", "u", "t", "h", "'">>
C_accidents_zero == <<"a", "c", "c", "i", "d", "e", "n", "t", "s", " ", "=", "=", " ", "0">>
C_south_dq_and_x == <<"r", "e", "g", "i", "o", "n", " ", "=", "=", " ", "\"", "s", "o", "u", "t", "h", "\"", " ", "a", "n", "d", " ", "x", " ", ">", " ", "0">>
C_x_gt_0_and_south == <<"x", " ", ">", " ", "0", " ", "a", "n", "d", " ", "r", "e", "g", "i", "o", "n", " ", "=", "=", " ", "'", "s", "o", "u", "t", "h", "'">>
C_south_or_x == <<"r", "e", "g", "i", "o", "n", " ", "=", "=", " ", "'", "s", "o", "u", "t", "h", "'", " ", "o", "r", " ", "x", " ", ">", " ", "0">>
C_x_or_south == <<"x", " ", ">", " ", "0", " ", "o", "r", " ", "r", "e", "g", "i", "o", "n", " ", "=", "=", " ", "'", "s", "o", "u", "t", "h", "'">>
C_not_south == <<"n", "o", "t", " ", "r", "e", "g", "i", "o", "n", " ", "=", "=", " ", "'", "s", "o", "u", "t", "h", "'">>
C_paren_south_and_zero == <<"(", "r", "e", "g", "i", "o", "n", " ", "=", "=", " ", "'", "s", "o", "u", "t", "h", "'", ")", " ", "a", "n", "d", " ", "(", "a", "c", "c", "i", "d", "e", "n", "t", "s", " ", "=", "=", " ", "0", ")">>
C_x_ne_south == <<"x", " ", "!", "=", " ", "'", "s", "o", "u", "t", "h", "'">>
C_region_lt_x == <<"r", "e", "g", "i", "o", "n", " ", "<", " ", "x">>
C_zero_and_south == <<"a", "c", "c", "i", "d", "e", "n", "t", "s", " ", "=", "=", " ", "0", " ", "a", "n", "d", " ", "r", "e", "g", "i", "o", "n", " ", "=", "=", " ", "'", "s", "o", "u", "t", "h", "'">>

\* ----------------------------------------------------------------- bounds

MaxCalls == 2     \* evaluate calls in a behaviour
MaxSaves == 1     \* save_ruleset_yaml calls in a behaviour
MaxClock == 1     \* the latest timestamp a file is written at

Names == {"insurance"}

\* Rules out of document order, with ties and a missing priority, an empty
\* and an absent condition, and a condition that is no string.
TextOrder ==
  Text("all",
    << Rule("late", TRUE, 30, TRUE, StrV(C_x_gt_0),
            <<Action("add", K_x, TRUE, IntV(1))>>),
       Rule("first", TRUE, 10, TRUE, StrV(C_x_ge_0),
            <<Action("append", K_tags, TRUE, StrV(<<"f">>))>>),
       Rule("dflt", FALSE, 0, FALSE, NullV,
            <<Action("set", K_seen, TRUE, BoolV(TRUE))>>),
       Rule("bad", TRUE, 30, TRUE, NullV,
            <<Action("set", K_x, TRUE, IntV(0))>>),
       Rule("empty", TRUE, 10, TRUE, StrV(C_empty),
            <<Action("set", K_tier, TRUE, StrV(<<"h", "i">>))>>) >>)

\* first_match: three rules that can all match
TextFirst ==
  Text("first_match",
    << Rule("double", TRUE, 20, TRUE, StrV(C_x_gt_0),
            <<Action("multiply", K_x, TRUE, IntV(2))>>),
       Rule("high", TRUE, 10, TRUE, StrV(C_x_gt_5),
            <<Action("set", K_tier, TRUE, StrV(<<"h", "i">>))>>),
       Rule("any", TRUE, 30, TRUE, StrV(C_x_ge_0),
            <<Action("append", K_tags, TRUE, StrV(<<"a">>))>>) >>)

\* a SET whose value is a list of the document, read and appended to later
TextList ==
  Text("all",
    << Rule("init", TRUE, 10, TRUE, StrV(C_x_ge_0),
            <<Action("set", K_lst, TRUE, ListV(<<>>))>>),
       Rule("check", TRUE, 20, TRUE, StrV(C_lst),
            <<Action("set", K_seen, TRUE, BoolV(TRUE))>>),
       Rule("grow", TRUE, 30, TRUE, StrV(C_x_ge_0),
            <<Action("append", K_lst, TRUE, IntV(1)),
              Action("append", K_tags, TRUE, StrV(<<"g">>))>>) >>)

\* rules that read what rules before them wrote: `gate` is false on every
\* record and true once `mark` has fired, `late` is true on a record with a
\* positive x and false once `gate` has fired
TextChain ==
  Text("all",
    << Rule("late", TRUE, 30, TRUE, StrV(C_x_gt_0),
            <<Action("append", K_tags, TRUE, StrV(<<"l">>))>>),
       Rule("mark", TRUE, 10, TRUE, StrV(C_x_gt_5),
            <<Action("set", K_seen, TRUE, BoolV(TRUE))>>),
       Rule("gate", TRUE, 20, TRUE, StrV(K_seen),
            <<Action("set", K_x, TRUE, IntV(0))>>) >>)

TextSet == {TextOrder, TextFirst, TextList, TextChain}

\* what save_ruleset_yaml is given: documents, and texts lacking a key
SaveSet == {TextFirst, TextNoRules, TextNoRuleset}

\* the records callers evaluate
InputSet ==
  { DictV(<<Entry(K_x, IntV(7))>>),
    DictV(<<Entry(K_x, IntV(1)), Entry(K_tags, ListV(<<StrV(<<"v">>)>>))>>),
    DictV(<<Entry(K_nest, DictV(<<Entry(K_lst, ListV(<<IntV(5)>>))>>))>>) }

\* ------------------------------------------------------------- RulesEngine

NoFile == [exists |-> FALSE, text |-> TextNoRules, mtime |-> 0]
File(text, mtime) == [exists |-> TRUE, text |-> text, mtime |-> mtime]

\* the cache check of load_ruleset: not forced, an entry is cached, and its
\* _mtime equals the file's modification time
CacheFresh_never(name, force_reload) == FALSE
CacheFresh(name, force_reload) ==
  ~force_reload /\ cache[name] # 0 /\ docs[cache[name]].mtime = files[name].mtime

\* load_ruleset(name, force_reload) run to its end on heap h: the error it
\* raises, or the document (an index in docs) with the store as it leaves it
load_ruleset(h, name, force_reload) ==
  LET f == files[name]
      cached == cache[name]
      r == ParseDocument(h, f.text, f.mtime, clock)
      same == [status |-> "ok", h |-> h, docs |-> docs, cache |-> cache,
               loadedSnap |-> loadedSnap, doc |-> cached]
  IN IF ~f.exists THEN [same EXCEPT !.status = "FileNotFoundError"]
     ELSE IF CacheFresh(name, force_reload) THEN same
     ELSE IF r.status # "ok" THEN [same EXCEPT !.status = r.status]
     ELSE [status |-> "ok", h |-> r.h, docs |-> Append(docs, r.doc),
           cache |-> [cache EXCEPT ![name] = Len(docs) + 1],
           loadedSnap |-> Append(loadedSnap, [doc |-> DeepDoc(r.h, r.doc),
                                              text |-> f.text]),
           doc |-> Len(docs) + 1]

\* a copy that shares the nested lists and dicts with the original
shallowcopy(h, v) == [h |-> Append(h, h[v.n]), v |-> RefV(Len(h) + 1)]

\* copy.deepcopy(input_data): a fresh object for the record and for every
\* list and dict in it (the records are trees)
deepcopy(h, v) == Build(h, Deep(h, v))

\* context.setdefault("tags", [])
SetDefaultTags(h, c) ==
  IF HasKey(h[c].ent, K_tags) THEN h
  ELSE SetField(Append(h, Obj("list", <<>>)), c, K_tags, RefV(Len(h) + 1))

NoResult == [status |-> "none"]
NoPrev == [valid |-> FALSE]

\* evaluate(ruleset_name, input_data, force_reload) up to the for loop; the
\* caller's record is built first
EvaluateStart(name, input, force_reload) ==
  LET b == Build(heap, input)
      ld == load_ruleset(b.h, name, force_reload)
      cp == deepcopy(ld.h, b.v)
  IN /\ pc \in {"idle", "returned", "raised"}
     /\ ncalls < MaxCalls
     /\ ncalls' = ncalls + 1
     /\ inputBefore' = input
     /\ prev' = IF pc = "returned"
                THEN [valid |-> TRUE, name |-> call.name, input |-> inputBefore,
                      saves |-> call.saves, context |-> result.context,
                      rules_fired |-> result.rules_fired,
                      rules_skipped |-> result.rules_skipped]
                ELSE NoPrev
     /\ docs' = ld.docs
     /\ cache' = ld.cache
     /\ loadedSnap' = ld.loadedSnap
     /\ rules_fired' = <<>>
     /\ rules_skipped' = <<>>
     /\ execution_log' = <<>>
     /\ idx' = 1
     /\ call' = [name |-> name, input |-> b.v, force_reload |-> force_reload,
                 doc |-> ld.doc, saves |-> nsaves,
                 ctx0 |-> IF ld.status = "ok"
                          THEN Deep(SetDefaultTags(cp.h, cp.v.n), cp.v)
                          ELSE NullV]
     /\ IF ld.status = "ok"
        THEN /\ heap' = SetDefaultTags(cp.h, cp.v.n)
             /\ ctx' = cp.v.n
             /\ pc' = "loop"
             /\ result' = NoResult
        ELSE /\ heap' = b.h
             /\ ctx' = 0
             /\ pc' = "raised"
             /\ result' = [status |-> ld.status]
     /\ UNCHANGED <<files, clock, nsaves, lastSave>>
     /\ UNCHANGED auxVars

\* a read of the newest document object at every use
PassRules_latest == docs[Len(docs)].rules

\* the rules the pass iterates: the list of the document it was given
PassRules == docs[call.doc].rules

\* rule.get("condition", "")
Condition(rule) == IF rule.hasCondition THEN rule.condition ELSE StrV(<<>>)

\* expression.strip() raises on a condition that is no str
ConditionRaises_never(rule) == FALSE
ConditionRaises(rule) == Condition(rule).kind # "str"

\* if priority_mode == "first_match": break
StopAfterMatch_never(doc) == FALSE
StopAfterMatch_always(doc) == TRUE
StopAfterMatch(doc) == doc.priority_mode = "first_match"

\* matched = SafeEvaluator(context).evaluate(condition): the evaluator reads
\* the context of the pass as it is when the rule is visited
Matched_initial(rule) ==
  LET b == Build(heap, call.ctx0) IN evaluate(Condition(rule).s, b.h, b.v.n)
Matched_always(rule) == TRUE
Matched(rule) == evaluate(Condition(rule).s, heap, ctx)

\* one iteration of `for rule in rules`
EvaluateRule ==
  LET rule == PassRules[idx]
      matched == Matched(rule)
      ex == execute(rule.actions, heap, ctx, rule.id)
  IN /\ pc = "loop"
     /\ idx <= Len(PassRules)
     /\ IF ConditionRaises(rule)
        THEN /\ execution_log' = Append(execution_log,
                    [rule_id |-> rule.id, matched |-> FALSE, error |-> TRUE,
                     priority |-> 0, actions_executed |-> 0, logs |-> <<>>,
                     keys |-> {"rule_id", "name", "matched", "error", "logs"}])
             /\ rules_skipped' = Append(rules_skipped, rule.id)
             /\ idx' = idx + 1
             /\ UNCHANGED <<heap, rules_fired, pc, result>>
        ELSE IF matched
        THEN IF ex.raised
             THEN /\ heap' = ex.h
                  /\ pc' = "raised"
                  /\ result' = [status |-> "Exception"]
                  /\ UNCHANGED <<rules_fired, rules_skipped, execution_log, idx>>
             ELSE /\ heap' = ex.h
                  /\ rules_fired' = Append(rules_fired, rule.id)
                  /\ execution_log' = Append(execution_log,
                         [rule_id |-> rule.id, matched |-> TRUE, error |-> FALSE,
                          priority |-> Priority(rule),
                          actions_executed |-> Len(rule.actions), logs |-> ex.logs,
                          keys |-> {"rule_id", "name", "priority", "description",
                                    "condition", "matched", "actions_executed",
                                    "logs"}])
                  /\ IF StopAfterMatch(docs[call.doc])
                     THEN pc' = "after" /\ idx' = idx
                     ELSE pc' = pc /\ idx' = idx + 1
                  /\ UNCHANGED <<rules_skipped, result>>
        ELSE /\ rules_skipped' = Append(rules_skipped, rule.id)
             /\ execution_log' = Append(execution_log,
                    [rule_id |-> rule.id, matched |-> FALSE, error |-> FALSE,
                     priority |-> Priority(rule), actions_executed |-> 0,
                     logs |-> <<>>,
                     keys |-> {"rule_id", "name", "priority", "condition",
                               "matched", "logs"}])
             /\ idx' = idx + 1
             /\ UNCHANGED <<heap, rules_fired, pc, result>>
     /\ UNCHANGED <<files, clock, docs, cache, call, ctx, inputBefore,
                    loadedSnap, prev, ncalls, nsaves, lastSave>>
     /\ UNCHANGED auxVars

\* the return statement after the loop
EvaluateReturn ==
  /\ pc = "after" \/ (pc = "loop" /\ idx > Len(PassRules))
  /\ pc' = "returned"
  /\ result' = [status |-> "ok", context |-> Deep(heap, RefV(ctx)),
                rules_fired |-> rules_fired, rules_skipped |-> rules_skipped,
                rules_fired_count |-> Len(rules_fired),
                rules_total |-> Len(PassRules),
                execution_log |-> execution_log,
                priority_mode |-> docs[call.doc].priority_mode]
  /\ UNCHANGED <<heap, files, clock, docs, cache, call, ctx, idx, rules_fired,
                 rules_skipped, execution_log, inputBefore, loadedSnap, prev,
                 ncalls, nsaves, lastSave>>
  /\ UNCHANGED auxVars

\* the outcome of a save, with the text it was given, the cache entry it
\* found and the number of evaluate calls made before it
SaveOutcome(name, text, status, rule_count) ==
  [name |-> name, text |-> text, status |-> status, rule_count |-> rule_count,
   cachedBefore |-> cache[name], ncalls |-> ncalls]

\* save_ruleset_yaml(name, content), called between evaluations at time now
\* (the same timestamp as the file's last write, or a later one): validates,
\* writes the file, evicts the cache entry, and returns the rule count
\* (len(None) raises after the write)
SaveRuleset(name, text, now) ==
  /\ pc \in {"idle", "returned", "raised"}
  /\ nsaves < MaxSaves
  /\ nsaves' = nsaves + 1
  /\ IF Validate(text) # "ok"
     THEN /\ now = clock
          /\ lastSave' = SaveOutcome(name, text, Validate(text), 0)
          /\ UNCHANGED <<files, cache, clock>>
     ELSE /\ clock' = now
          /\ files' = [files EXCEPT ![name] = File(text, now)]
          /\ cache' = [cache EXCEPT ![name] = 0]
          /\ lastSave' = IF text.rulesKind = "null"
                         THEN SaveOutcome(name, text, "TypeError", 0)
                         ELSE SaveOutcome(name, text, "ok", Len(text.rules))
  /\ UNCHANGED <<heap, docs, loadedSnap>>
  /\ UNCHANGED evalVars
  /\ UNCHANGED auxVars

\* no thread is in the store
Threads == {1, 2}
IdleThread == [pc |-> "idle", op |-> "none", name |-> "", force_reload |-> FALSE,
               mtime |-> 0, doc |-> 0, text |-> TextNoRules, status |-> "none",
               after |-> 0, widx |-> 0]
NoThreads ==
  /\ thr = [t \in Threads |-> IdleThread]
  /\ history = <<>>
  /\ doneIdx = 0
  /\ nops = 0

\* no action list under execution, no batch request, no listing
NoBatch == [name |-> "", isList |-> TRUE, records |-> <<>>]
NoRequests ==
  /\ acts = <<>>
  /\ batch = NoBatch
  /\ results = <<>>
  /\ listing = <<>>
  /\ rulesets = <<>>

\* a rules directory holding one document, nothing loaded yet
Init ==
  /\ heap = <<>>
  /\ files \in [Names -> {File(t, 0) : t \in TextSet}]
  /\ clock = 0
  /\ docs = <<>>
  /\ cache = [n \in Names |-> 0]
  /\ pc = "idle"
  /\ call = [name |-> "", input |-> NullV, force_reload |-> FALSE, doc |-> 0,
             saves |-> 0, ctx0 |-> NullV]
  /\ ctx = 0
  /\ idx = 1
  /\ rules_fired = <<>>
  /\ rules_skipped = <<>>
  /\ execution_log = <<>>
  /\ result = NoResult
  /\ inputBefore = NullV
  /\ loadedSnap = <<>>
  /\ prev = NoPrev
  /\ ncalls = 0
  /\ nsaves = 0
  /\ lastSave = [name |-> "", text |-> TextNoRules, status |-> "none",
                 rule_count |-> 0, cachedBefore |-> 0, ncalls |-> 0]
  /\ expr = <<>>
  /\ verdict = FALSE
  /\ NoThreads
  /\ NoRequests

Next ==
  \/ \E name \in Names, input \in InputSet, force_reload \in BOOLEAN :
       EvaluateStart(name, input, force_reload)
  \/ EvaluateRule
  \/ EvaluateReturn
  \/ \E name \in Names, text \in SaveSet, now \in clock..MaxClock :
       SaveRuleset(name, text, now)

Spec == Init /\ [][Next]_vars

TypeOK == pc \in {"idle", "loop", "after", "returned", "raised", "cond", "cond_done",
                 "exec", "exec_done", "responded", "listing", "listed", "loading"}

\* ------------------------------------------------------------------ claims

\* the caller's record of the current call, as a structure
InputNow == Deep(heap, call.input)

\* the position of the rule with this id in the text the document of the
\* pass was loaded from (ids are distinct in the documents drawn here)
SourceRules == loadedSnap[call.doc].text.rules
SourcePos(id) == CHOOSE k \in 1..Len(SourceRules) : SourceRules[k].id = id

\* C1: from the start of an evaluate call on, whether it is still running,
\* has returned or has raised, the caller's record, with every list and
\* mapping nested in it, equals what it was when the call started.
C1_InputNeverMutated ==
  pc # "idle" => InputNow = inputBefore

\* a call has returned after a rule appended to a list field that the
\* caller's record holds
C1_Witness ==
  /\ pc = "returned"
  /\ rules_fired # <<>>
  /\ HasKey(inputBefore.ent, K_tags)
  /\ DictGet(result.context.ent, K_tags, NullV) # DictGet(inputBefore.ent, K_tags, NullV)

\* C2: the rules visited so far in a pass were visited in ascending priority
\* (a missing priority counting as 50), rules of equal priority in the order
\* of the document text; a pass in mode `all` that has returned visited every
\* rule.  It holds for a pass on a freshly loaded document and for one served
\* from the cache alike.
C2_PriorityOrder ==
  (pc \in {"loop", "after", "returned"}) =>
    /\ \A i, j \in 1..Len(execution_log) :
         i < j =>
           LET a == SourcePos(execution_log[i].rule_id)
               b == SourcePos(execution_log[j].rule_id)
           IN \/ Priority(SourceRules[a]) < Priority(SourceRules[b])
              \/ Priority(SourceRules[a]) = Priority(SourceRules[b]) /\ a < b
    /\ (pc = "returned" /\ result.priority_mode = "all")
          => Len(execution_log) = Len(SourceRules)

\* a second call, served from the cache, has visited the five rules of a
\* document with ties and a missing priority, written out of order
C2_Witness ==
  /\ pc = "returned"
  /\ ncalls = 2
  /\ ~call.force_reload
  /\ Len(docs) = 1
  /\ Len(execution_log) = 5
  /\ \E i, j \in 1..5 : i < j /\ SourcePos(execution_log[i].rule_id)
                                   > SourcePos(execution_log[j].rule_id)
  /\ \E i \in 1..4 : execution_log[i].priority = execution_log[i + 1].priority

\* C3: in a first_match pass the loop goes on only while no rule has matched:
\* at most one rule fires, the matching entry is the last entry of the log,
\* and the rules after it are in no list and in no log entry.
C3_FirstMatchStops ==
  (pc \in {"loop", "after", "returned"} /\ docs[call.doc].priority_mode = "first_match") =>
    /\ Len(rules_fired) <= 1
    /\ pc = "loop" => rules_fired = <<>>
    /\ \A i \in 1..Len(execution_log) :
         execution_log[i].matched => i = Len(execution_log)
    /\ Len(execution_log) = Len(rules_fired) + Len(rules_skipped)
    /\ rules_fired # <<>> =>
         \A k \in 1..Len(PassRules) :
           k > idx => /\ \A i \in 1..Len(execution_log) :
                           execution_log[i].rule_id # PassRules[k].id
                      /\ \A i \in 1..Len(rules_skipped) :
                           rules_skipped[i] # PassRules[k].id

\* a first_match pass has returned after its first rule in priority order
\* fired, and a later rule, never visited, has a condition true of the result
C3_Witness ==
  /\ pc = "returned"
  /\ docs[call.doc].priority_mode = "first_match"
  /\ Len(rules_fired) = 1
  /\ \E k \in 1..Len(PassRules) :
       /\ k > idx
       /\ ~ConditionRaises(PassRules[k])
       /\ evaluate(Condition(PassRules[k]).s, heap, ctx)

\* the rule the loop stands at, when it stands at one
AtRule == pc = "loop" /\ idx <= Len(PassRules)

\* C4: a visit of a rule whose condition makes the evaluator raise (the
\* condition is no string) appends a trace entry with matched = false and an
\* error, appends the rule's id to rules_skipped, leaves the context and
\* rules_fired alone, and leaves the loop at the next rule.
C4_ConditionErrorSkips ==
  [][ (AtRule /\ Condition(PassRules[idx]).kind # "str" /\ (idx' # idx \/ pc' # pc))
        => /\ pc' = "loop"
           /\ idx' = idx + 1
           /\ heap' = heap
           /\ rules_fired' = rules_fired
           /\ rules_skipped' = Append(rules_skipped, PassRules[idx].id)
           /\ Len(execution_log') = Len(execution_log) + 1
           /\ SubSeq(execution_log', 1, Len(execution_log)) = execution_log
           /\ LET e == execution_log'[Len(execution_log')]
              IN e.rule_id = PassRules[idx].id /\ ~e.matched /\ e.error
                 /\ e.logs = <<>> ]_vars

\* the trace holds an entry with an error, and entries of rules visited
\* after it
C4_Witness ==
  \E i \in 1..Len(execution_log) :
    /\ execution_log[i].error
    /\ i < Len(execution_log)
    /\ execution_log[i].rule_id \in {rules_skipped[k] : k \in 1..Len(rules_skipped)}

\* C5: a call that returns after another call of the same ruleset with an
\* equal record, no save in between, returns an equal context, equal
\* rules_fired and equal rules_skipped.
C5_Idempotent ==
  (/\ pc = "returned"
   /\ prev.valid
   /\ prev.name = call.name
   /\ prev.input = inputBefore
   /\ prev.saves = call.saves)
  => /\ result.context = prev.context
     /\ result.rules_fired = prev.rules_fired
     /\ result.rules_skipped = prev.rules_skipped

\* C7: every rule visited whose condition is the empty string, or absent,
\* matched: its trace entry has matched = true and its id is in rules_fired.
C7_EmptyConditionMatches ==
  (pc \in {"loop", "after", "returned"}) =>
    \A i \in 1..Len(execution_log) :
      Condition(SourceRules[SourcePos(execution_log[i].rule_id)]) = StrV(<<>>)
        => /\ execution_log[i].matched
           /\ \E k \in 1..Len(rules_fired) : rules_fired[k] = execution_log[i].rule_id

\* the text lacks one of the two required keys
LacksKey(text) == text.form = "map" /\ (~text.hasRuleset \/ text.rulesKind = "absent")

\* C9: a save whose text lacks the `rules` or the `ruleset` key raises the
\* validation error and leaves the files, the cache and the documents as
\* they were; an unforced load that follows it, the entry having been cached,
\* is served the very document that was cached before the save.
C9_FailedSaveKeepsCache ==
  /\ [][ (nsaves' = nsaves + 1 /\ LacksKey(lastSave'.text))
           => /\ lastSave'.status = "ValueError"
              /\ files' = files
              /\ cache' = cache
              /\ docs' = docs ]_vars
  /\ []( (/\ pc # "idle"
          /\ lastSave.status # "none"
          /\ LacksKey(lastSave.text)
          /\ ncalls = lastSave.ncalls + 1
          /\ ~call.force_reload
          /\ lastSave.cachedBefore # 0)
         => call.doc = lastSave.cachedBefore )

\* a save without the `rules` key has failed with a document in the cache,
\* and the evaluate call after it runs on that document
C9_Witness ==
  /\ pc = "loop"
  /\ lastSave.status = "ValueError"
  /\ lastSave.text = TextNoRules
  /\ lastSave.cachedBefore # 0
  /\ ncalls = lastSave.ncalls + 1
  /\ ~call.force_reload
  /\ call.doc = lastSave.cachedBefore

C10_DocumentsNeverMutated ==
  \A d \in 1..Len(docs) : DeepDoc(heap, docs[d]) = loadedSnap[d].doc

\* what a condition text evaluates to on the context the pass started with
OnInitial(cond) ==
  LET b == Build(heap, call.ctx0) IN evaluate(cond, b.h, b.v.n)

\* a rule visit has just appended its trace entry
Visited == AtRule /\ Len(execution_log') = Len(execution_log) + 1

\* C17: the entry a rule visit appends has matched equal to what the rule's
\* condition evaluates to on the context as the rules fired before it left
\* it; the rule fires when that is true and is skipped when it is false.
C17_ConditionSeesCurrentContext ==
  [][ (Visited /\ Condition(PassRules[idx]).kind = "str")
        => LET rule == PassRules[idx]
               now == evaluate(Condition(rule).s, heap, ctx)
               e == execution_log'[Len(execution_log')]
           IN /\ e.rule_id = rule.id
              /\ e.matched = now
              /\ now => /\ rules_fired' = Append(rules_fired, rule.id)
                        /\ rules_skipped' = rules_skipped
              /\ ~now => /\ rules_skipped' = Append(rules_skipped, rule.id)
                         /\ rules_fired' = rules_fired ]_vars

\* a pass has returned in which a rule fired whose condition is false on
\* the initial context, and a rule was skipped whose condition is true on it
C17_Witness ==
  /\ pc = "returned"
  /\ \E i \in 1..Len(execution_log) :
       /\ execution_log[i].matched
       /\ Condition(PassRules[i]).kind = "str"
       /\ ~OnInitial(Condition(PassRules[i]).s)
  /\ \E i \in 1..Len(execution_log) :
       /\ ~execution_log[i].matched
       /\ ~execution_log[i].error
       /\ OnInitial(Condition(PassRules[i]).s)

\* the ids of the first n rules of the pass
FirstIds(n) == [i \in 1..n |-> PassRules[i].id]

\* C18: a first_match pass that has returned fired at most one rule; the
\* rules visited before the last one have conditions that are not true on
\* the initial context and are the skipped ones; the rule that fired is the
\* last one visited, its condition is true on the initial context, and the
\* context returned is the initial one after that rule's actions; when no
\* rule fired every rule was skipped and the context is the initial one.
C18_FirstMatchFiresFirstTrue ==
  (pc = "returned" /\ docs[call.doc].priority_mode = "first_match") =>
    LET n == Len(execution_log)
        untrue(i) == \/ Condition(PassRules[i]).kind # "str"
                     \/ ~OnInitial(Condition(PassRules[i]).s)
    IN /\ Len(result.rules_fired) <= 1
       /\ IF result.rules_fired = <<>>
          THEN /\ n = Len(PassRules)
               /\ \A i \in 1..n : untrue(i)
               /\ result.rules_skipped = FirstIds(n)
               /\ result.context = call.ctx0
          ELSE /\ n >= 1
               /\ \A i \in 1..(n - 1) : untrue(i)
               /\ ~untrue(n)
               /\ result.rules_fired = <<PassRules[n].id>>
               /\ result.rules_skipped = FirstIds(n - 1)
               /\ LET b == Build(heap, call.ctx0)
                      ex == execute(PassRules[n].actions, b.h, b.v.n, PassRules[n].id)
                  IN ~ex.raised /\ result.context = Deep(ex.h, b.v)

\* a first_match pass has returned with a rule fired after a rule skipped
\* and with a rule left unvisited
C18_Witness ==
  /\ pc = "returned"
  /\ docs[call.doc].priority_mode = "first_match"
  /\ Len(result.rules_fired) = 1
  /\ Len(result.rules_skipped) = 1
  /\ Len(execution_log) < Len(PassRules)
  /\ result.context # call.ctx0

\* the ids of the entries of the log that matched (m = TRUE) or did not
RECURSIVE IdsOf(_, _)
IdsOf(log, m) ==
  IF log = <<>> THEN <<>>
  ELSE (IF Head(log).matched = m THEN <<Head(log).rule_id>> ELSE <<>>)
       \o IdsOf(Tail(log), m)

\* C19: during a pass and at its return the log holds one entry per rule
\* visited, in visit order; rules_fired holds the ids of the entries that
\* matched and rules_skipped those of the others, so the log is as long as
\* the two together and no longer than the rule list; a pass in `all` mode
\* returns with every rule accounted for.
C19_TraceAccounting ==
  (pc \in {"loop", "after", "returned"}) =>
    /\ Len(execution_log) = Len(rules_fired) + Len(rules_skipped)
    /\ Len(execution_log) <= Len(PassRules)
    /\ \A i \in 1..Len(execution_log) : execution_log[i].rule_id = PassRules[i].id
    /\ rules_fired = IdsOf(execution_log, TRUE)
    /\ rules_skipped = IdsOf(execution_log, FALSE)
    /\ pc = "loop" => Len(execution_log) = idx - 1
    /\ pc = "returned" =>
         /\ result.rules_total = Len(PassRules)
         /\ result.rules_fired_count = Len(rules_fired)
         /\ result.execution_log = execution_log
         /\ docs[call.doc].priority_mode = "all"
              => Len(rules_fired) + Len(rules_skipped) = result.rules_total

\* a pass in `all` mode has returned with rules fired, a rule skipped for
\* its condition and a rule skipped for an error
C19_Witness ==
  /\ pc = "returned"
  /\ docs[call.doc].priority_mode = "all"
  /\ Len(rules_fired) >= 2
  /\ \E i \in 1..Len(execution_log) : execution_log[i].error
  /\ \E i \in 1..Len(execution_log) :
       ~execution_log[i].error /\ ~execution_log[i].matched

\* the context of the pass, as a structure
ContextNow == Deep(heap, RefV(ctx))

\* C20: a rule visit whose condition raises or does not evaluate to true
\* leaves the context, and every object, as it was; a step of a pass that
\* changes the context is the visit of a rule whose condition is true.
C20_ConditionHasNoSideEffects ==
  [][ /\ (AtRule /\ ncalls' = ncalls
          /\ (\/ Condition(PassRules[idx]).kind # "str"
              \/ ~evaluate(Condition(PassRules[idx]).s, heap, ctx)))
         => heap' = heap /\ ctx' = ctx
      /\ (pc \in {"loop", "after"} /\ ncalls' = ncalls
          /\ Deep(heap', RefV(ctx')) # ContextNow)
         => /\ AtRule
            /\ Condition(PassRules[idx]).kind = "str"
            /\ evaluate(Condition(PassRules[idx]).s, heap, ctx) ]_vars

\* a rule has been skipped after a rule fired, with the context as the
\* fired rule left it and unlike the initial one
C20_Witness ==
  /\ pc = "loop"
  /\ Len(execution_log) >= 2
  /\ execution_log[Len(execution_log) - 1].matched
  /\ ~execution_log[Len(execution_log)].matched
  /\ ContextNow # call.ctx0

\* ------------------------------------------- the evaluator on its own

\* operand texts that resolve to values of unrelated types in the contexts
\* below: a number or nothing against a str, a str against a number or a
\* bool, a number against null, a list against a number
MixedOperands ==
  { << <<"x">>, <<"'", "s", "o", "u", "t", "h", "'">> >>,
    << <<"r", "e", "g", "i", "o", "n">>, <<"5">> >>,
    << <<"r", "e", "g", "i", "o", "n">>, <<"t", "r", "u", "e">> >>,
    << <<"a", "c", "c", "i", "d", "e", "n", "t", "s">>, <<"n", "u", "l", "l">> >>,
    << <<"l", "s", "t">>, <<"1">> >> }

\* the text `left op right`
Comparison(left, op, right) == left \o <<" ">> \o op \o <<" ">> \o right

Operators == {OpOrder[i] : i \in 1..Len(OpOrder)}

MixedComparisons ==
  {Comparison(p[1], op, p[2]) : p \in MixedOperands, op \in Operators}

\* conditions and contexts SafeEvaluator.evaluate is applied to
CondSet ==
  { C_empty, C_x_gt_0, C_x_ge_0, C_lst, C_region_south, C_accidents_zero,
    C_south_and_zero, C_zero_and_south, C_south_dq_and_x, C_x_gt_0_and_south,
    C_south_or_x, C_x_or_south, C_not_south, C_paren_south_and_zero,
    C_x_ne_south, C_region_lt_x } \cup MixedComparisons

CondContextSet ==
  { DictV(<<Entry(K_region, StrV(<<"s", "o", "u", "t", "h">>)),
            Entry(K_accidents, IntV(0))>>),
    DictV(<<Entry(K_region, StrV(<<"s", "o", "u", "t", "h">>)),
            Entry(K_accidents, IntV(1))>>),
    DictV(<<Entry(K_region, StrV(<<"n", "o", "r", "t", "h">>)),
            Entry(K_accidents, IntV(0)), Entry(K_x, IntV(3))>>),
    DictV(<<Entry(K_region, StrV(<<"s", "o", "u", "t", "h">>)),
            Entry(K_accidents, FloatV(0)), Entry(K_x, IntV(3)),
            Entry(K_lst, ListV(<<IntV(1)>>))>>),
    DictV(<<Entry(K_x, IntV(0)), Entry(K_tags, ListV(<<>>))>>) }

\* a context and a condition text, nothing evaluated yet
CondInit ==
  /\ \E c \in CondContextSet :
       /\ heap = Build(<<>>, c).h
       /\ ctx = Build(<<>>, c).v.n
  /\ expr \in CondSet
  /\ verdict = FALSE
  /\ pc = "cond"
  /\ files = [n \in Names |-> NoFile]
  /\ clock = 0
  /\ docs = <<>>
  /\ cache = [n \in Names |-> 0]
  /\ call = [name |-> "", input |-> NullV, force_reload |-> FALSE, doc |-> 0,
             saves |-> 0, ctx0 |-> NullV]
  /\ idx = 1
  /\ rules_fired = <<>>
  /\ rules_skipped = <<>>
  /\ execution_log = <<>>
  /\ result = NoResult
  /\ inputBefore = NullV
  /\ loadedSnap = <<>>
  /\ prev = NoPrev
  /\ ncalls = 0
  /\ nsaves = 0
  /\ lastSave = [name |-> "", text |-> TextNoRules, status |-> "none",
                 rule_count |-> 0, cachedBefore |-> 0, ncalls |-> 0]
  /\ NoThreads
  /\ NoRequests

\* matched = SafeEvaluator(context).evaluate(condition)
EvaluateCondition ==
  /\ pc = "cond"
  /\ verdict' = evaluate(expr, heap, ctx)
  /\ pc' = "cond_done"
  /\ UNCHANGED <<heap, files, clock, docs, cache, call, ctx, idx, rules_fired,
                 rules_skipped, execution_log, result, inputBefore, loadedSnap,
                 prev, ncalls, nsaves, lastSave, expr, thr, history, doneIdx, nops,
                 acts, batch, results, listing, rulesets>>

CondNext == EvaluateCondition

SpecCond == CondInit /\ [][CondNext]_vars

\* conditions A and B, A holding a quoted string literal
QuotedAndPairs ==
  { <<C_region_south, C_accidents_zero>>,
    <<C_region_south_dq, C_x_gt_0>> }

\* C6: a condition `A and B` whose A holds a quoted string literal evaluates
\* to the conjunction of what A and B evaluate to; so
\* `region == 'south' and accidents == 0` is true when region is "south" and
\* accidents is 0, and false when accidents is 1.
C6_AndAfterQuotedLiteral ==
  pc = "cond_done" =>
    \A p \in QuotedAndPairs :
      expr = p[1] \o KwAnd \o p[2]
        => verdict = (evaluate(p[1], heap, ctx) /\ evaluate(p[2], heap, ctx))

\* the two values have unrelated types: not both numbers (int, float, bool),
\* and not of the same type
Incompatible(a, b) == ~(IsNumeric(a) /\ IsNumeric(b)) /\ a.kind # b.kind

\* C12: a comparison, by any of the six operators, of two operands that
\* resolve to values of unrelated types evaluates to false.
C12_IncompatibleTypesAreFalse ==
  pc = "cond_done" =>
    \A p \in MixedOperands, op \in Operators :
      (/\ expr = Comparison(p[1], op, p[2])
       /\ Incompatible(Deep(heap, resolve_value(p[1], heap, ctx)),
                       Deep(heap, resolve_value(p[2], heap, ctx))))
      => verdict = FALSE

\* ------------------------------------ the store under concurrent callers

MaxOps == 3      \* load and save calls begun in a behaviour

\* what the file holds between open(path, "w") and the write: nothing, which
\* yaml.safe_load reads as None
TextEmpty == [form |-> "null", hasRuleset |-> FALSE, mode |-> "all",
              rulesKind |-> "absent", rules |-> <<>>]

\* the texts the threads save
StoreSaveSet == {TextFirst, TextNoRules}

Done(t, status) == [thr EXCEPT ![t].pc = "done", ![t].status = status]

mainVars == <<pc, call, ctx, idx, rules_fired, rules_skipped, execution_log,
              result, inputBefore, prev, ncalls, nsaves, lastSave, expr, verdict,
              acts, batch, results, listing, rulesets>>

\* a thread calls load_ruleset(name, force_reload)
LoadBegin(t, name, force_reload) ==
  /\ thr[t].pc \in {"idle", "done"}
  /\ nops < MaxOps
  /\ nops' = nops + 1
  /\ thr' = [thr EXCEPT ![t] = [IdleThread EXCEPT !.pc = "stat", !.op = "load",
                                   !.name = name, !.force_reload = force_reload,
                                   !.after = doneIdx]]
  /\ UNCHANGED <<heap, files, clock, docs, cache, loadedSnap, history, doneIdx>>
  /\ UNCHANGED mainVars

\* os.path.exists(path) and mtime = os.path.getmtime(path)
LoadStat(t) ==
  /\ thr[t].pc = "stat"
  /\ thr' = IF ~files[thr[t].name].exists THEN Done(t, "FileNotFoundError")
            ELSE [thr EXCEPT ![t].pc = "check", ![t].mtime = files[thr[t].name].mtime]
  /\ UNCHANGED <<heap, files, clock, docs, cache, loadedSnap, history, doneIdx, nops>>
  /\ UNCHANGED mainVars

\* cached = self._cache.get(name) and the return of a fresh entry
LoadCheck(t) ==
  LET cached == cache[thr[t].name]
  IN /\ thr[t].pc = "check"
     /\ thr' = IF ~thr[t].force_reload /\ cached # 0 /\ docs[cached].mtime = thr[t].mtime
               THEN [Done(t, "ok") EXCEPT ![t].doc = cached]
               ELSE [thr EXCEPT ![t].pc = "read"]
     /\ UNCHANGED <<heap, files, clock, docs, cache, loadedSnap, history, doneIdx, nops>>
  /\ UNCHANGED mainVars

\* the file is read and parsed, the keys checked, the rules sorted: the
\* document object exists, known to this thread only
LoadRead(t) ==
  LET r == ParseDocument(heap, files[thr[t].name].text, thr[t].mtime, clock)
  IN /\ thr[t].pc = "read"
     /\ IF r.status # "ok"
        THEN /\ thr' = Done(t, r.status)
             /\ UNCHANGED <<heap, docs, loadedSnap>>
        ELSE /\ heap' = r.h
             /\ docs' = Append(docs, r.doc)
             /\ loadedSnap' = Append(loadedSnap, [doc |-> DeepDoc(r.h, r.doc),
                                                  text |-> files[thr[t].name].text])
             /\ thr' = [thr EXCEPT ![t].pc = "store", ![t].doc = Len(docs) + 1]
     /\ UNCHANGED <<files, clock, cache, history, doneIdx, nops>>
  /\ UNCHANGED mainVars

\* data["_mtime"] = mtime; data["_loaded_at"] = utcnow(); self._cache[name] = data
LoadStore(t) ==
  /\ thr[t].pc = "store"
  /\ docs' = [docs EXCEPT ![thr[t].doc].mtime = thr[t].mtime,
                          ![thr[t].doc].loaded_at = clock]
  /\ loadedSnap' = [loadedSnap EXCEPT ![thr[t].doc].doc.mtime = thr[t].mtime,
                                      ![thr[t].doc].doc.loaded_at = clock]
  /\ cache' = [cache EXCEPT ![thr[t].name] = thr[t].doc]
  /\ thr' = Done(t, "ok")
  /\ UNCHANGED <<heap, files, clock, history, doneIdx, nops>>
  /\ UNCHANGED mainVars

\* a thread calls save_ruleset_yaml(name, content): the text is parsed and
\* its keys checked
SaveBegin(t, name, text) ==
  /\ thr[t].pc \in {"idle", "done"}
  /\ nops < MaxOps
  /\ nops' = nops + 1
  /\ thr' = [thr EXCEPT ![t] = [IdleThread EXCEPT
                 !.pc = IF Validate(text) = "ok" THEN "open" ELSE "done",
                 !.op = "save", !.name = name, !.text = text,
                 !.status = IF Validate(text) = "ok" THEN "none" ELSE Validate(text)]]
  /\ UNCHANGED <<heap, files, clock, docs, cache, loadedSnap, history, doneIdx>>
  /\ UNCHANGED mainVars

\* open(path, "w") truncates the file
SaveOpen(t) ==
  /\ thr[t].pc = "open"
  /\ files' = [files EXCEPT ![thr[t].name] = File(TextEmpty, clock)]
  /\ thr' = [thr EXCEPT ![t].pc = "write"]
  /\ UNCHANGED <<heap, clock, docs, cache, loadedSnap, history, doneIdx, nops>>
  /\ UNCHANGED mainVars

\* f.write(content) and the close of the file
SaveWrite(t) ==
  /\ thr[t].pc = "write"
  /\ files' = [files EXCEPT ![thr[t].name] = File(thr[t].text, clock)]
  /\ history' = Append(history, thr[t].text)
  /\ thr' = [thr EXCEPT ![t].pc = "evict", ![t].widx = Len(history) + 1]
  /\ UNCHANGED <<heap, clock, docs, cache, loadedSnap, doneIdx, nops>>
  /\ UNCHANGED mainVars

\* if name in self._cache: del self._cache[name]
SaveEvict(t) ==
  /\ thr[t].pc = "evict"
  /\ cache' = [cache EXCEPT ![thr[t].name] = 0]
  /\ thr' = [thr EXCEPT ![t].pc = "return"]
  /\ UNCHANGED <<heap, files, clock, docs, loadedSnap, history, doneIdx, nops>>
  /\ UNCHANGED mainVars

\* return {"saved": True, ..., "rule_count": len(parsed["rules"])}
SaveReturn(t) ==
  /\ thr[t].pc = "return"
  /\ IF thr[t].text.rulesKind = "null"
     THEN thr' = Done(t, "TypeError") /\ UNCHANGED doneIdx
     ELSE /\ thr' = Done(t, "ok")
          /\ doneIdx' = IF thr[t].widx > doneIdx THEN thr[t].widx ELSE doneIdx
  /\ UNCHANGED <<heap, files, clock, docs, cache, loadedSnap, history, nops>>
  /\ UNCHANGED mainVars

StoreTick ==
  /\ clock < MaxClock
  /\ clock' = clock + 1
  /\ UNCHANGED <<heap, files, docs, cache, loadedSnap, thr, history, doneIdx, nops>>
  /\ UNCHANGED mainVars

StoreNext ==
  \/ \E t \in Threads, name \in Names, force_reload \in BOOLEAN :
       LoadBegin(t, name, force_reload)
  \/ \E t \in Threads : LoadStat(t)
  \/ \E t \in Threads : LoadCheck(t)
  \/ \E t \in Threads : LoadRead(t)
  \/ \E t \in Threads : LoadStore(t)
  \/ \E t \in Threads, name \in Names, text \in StoreSaveSet : SaveBegin(t, name, text)
  \/ \E t \in Threads : SaveOpen(t)
  \/ \E t \in Threads : SaveWrite(t)
  \/ \E t \in Threads : SaveEvict(t)
  \/ \E t \in Threads : SaveReturn(t)
  \/ StoreTick

\* threads of one process share the engine; the file was written at time 0
SpecStore == Init /\ [][StoreNext]_vars

\* C8: a load_ruleset that began after a save_ruleset_yaml had returned
\* returns a document parsed from the text of that save or of a later write.
C8_LoadAfterSaveIsFresh ==
  \A t \in Threads :
    (thr[t].pc = "done" /\ thr[t].op = "load" /\ thr[t].status = "ok"
     /\ ~thr[t].force_reload /\ thr[t].after > 0)
    => \E k \in thr[t].after..Len(history) : loadedSnap[thr[t].doc].text = history[k]

\* ------------------------------------------------ the executor on its own

\* a DIVIDE whose operand is absent or zero, and the other arithmetic actions
DivideByZero == Action("divide", K_x, TRUE, IntV(0))
DivideByZeroFloat == Action("divide", K_x, TRUE, FloatV(0))
DivideTierByZero == Action("divide", K_tier, TRUE, IntV(0))
SetSeen == Action("set", K_seen, TRUE, BoolV(TRUE))

\* LOG actions: one placeholder, two placeholders, a key that is absent
LogX == Action("log", <<>>, TRUE, StrV(<<"{", "x", "}">>))
LogTierX == Action("log", <<>>, TRUE,
                   StrV(<<"{", "t", "i", "e", "r", "}", "/", "{", "x", "}">>))
LogSeen == Action("log", <<>>, TRUE, StrV(<<"{", "s", "e", "e", "n", "}", "!">>))

\* a descriptor with none of the seven operation keys
Remove == Action("remove", K_x, FALSE, NullV)

\* the text {tier}, as a value of the context
BracedTier == StrV(<<"{", "t", "i", "e", "r", "}">>)

\* action lists and contexts RuleExecutor.execute is applied to
ExecActionSet ==
  { <<Action("multiply", K_x, TRUE, IntV(2)), SetSeen>>,
    <<Action("add", K_x, TRUE, IntV(1))>>,
    <<Action("subtract", K_x, TRUE, IntV(1)),
      Action("append", K_tags, TRUE, StrV(<<"a">>))>>,
    <<Action("divide", K_x, TRUE, IntV(2))>>,
    <<Action("divide", K_x, FALSE, NullV)>>,
    <<Action("multiply", K_x, TRUE, StrV(<<"t", "w", "o">>))>>,
    <<SetSeen, Action("log", <<>>, TRUE, StrV(<<"x", "=", "{", "x", "}">>))>>,
    <<DivideByZero>>,
    <<DivideByZeroFloat>>,
    <<DivideTierByZero>>,
    <<DivideByZero, DivideTierByZero>>,
    <<DivideByZero, SetSeen>>,
    <<LogX>>,
    <<LogTierX>>,
    <<LogSeen>>,
    <<Remove, SetSeen>>,
    <<SetSeen, Remove, Action("append", K_tags, TRUE, StrV(<<"a">>))>> }

ExecContextSet ==
  { DictV(<<Entry(K_x, IntV(7))>>),
    DictV(<<Entry(K_x, FloatV(25000))>>),
    DictV(<<Entry(K_x, StrV(<<"2", ".", "5">>))>>),
    DictV(<<Entry(K_x, StrV(<<"h", "i">>))>>),
    DictV(<<Entry(K_x, NullV)>>),
    DictV(<<Entry(K_x, ListV(<<IntV(5)>>))>>),
    DictV(<<Entry(K_tier, StrV(<<"h", "i">>))>>),
    DictV(<<Entry(K_tier, StrV(<<"h", "i">>)), Entry(K_x, BracedTier)>>),
    DictV(<<Entry(K_x, BracedTier), Entry(K_tier, StrV(<<"h", "i">>))>>) }

\* the id of the rule whose actions run
ExecRuleId == <<"r">>

\* an executor, an action list and a context
ExecInit ==
  /\ acts \in ExecActionSet
  /\ \E c \in ExecContextSet :
       /\ heap = Build(<<>>, c).h
       /\ ctx = Build(<<>>, c).v.n
  /\ pc = "exec"
  /\ expr = <<>>
  /\ verdict = FALSE
  /\ files = [n \in Names |-> NoFile]
  /\ clock = 0
  /\ docs = <<>>
  /\ cache = [n \in Names |-> 0]
  /\ call = [name |-> "", input |-> NullV, force_reload |-> FALSE, doc |-> 0,
             saves |-> 0, ctx0 |-> NullV]
  /\ idx = 1
  /\ rules_fired = <<>>
  /\ rules_skipped = <<>>
  /\ execution_log = <<>>
  /\ result = NoResult
  /\ inputBefore = NullV
  /\ loadedSnap = <<>>
  /\ prev = NoPrev
  /\ ncalls = 0
  /\ nsaves = 0
  /\ lastSave = [name |-> "", text |-> TextNoRules, status |-> "none",
                 rule_count |-> 0, cachedBefore |-> 0, ncalls |-> 0]
  /\ NoThreads
  /\ batch = NoBatch
  /\ results = <<>>
  /\ listing = <<>>
  /\ rulesets = <<>>

\* action_logs = self.executor.execute(actions, context, rule_id)
Execute ==
  LET ex == execute(acts, heap, ctx, ExecRuleId)
  IN /\ pc = "exec"
     /\ heap' = ex.h
     /\ pc' = "exec_done"
     /\ result' = [status |-> IF ex.raised THEN "Exception" ELSE "ok",
                   logs |-> ex.logs]
     /\ UNCHANGED <<files, clock, docs, cache, call, ctx, idx, rules_fired,
                    rules_skipped, execution_log, inputBefore, loadedSnap, prev,
                    ncalls, nsaves, lastSave>>
     /\ UNCHANGED auxVars

ExecNext == Execute

SpecExec == ExecInit /\ [][ExecNext]_vars

\* C11: whatever the action list and the context, execute returns without
\* raising, with one log line for each action of the list.
C11_NoActionAborts ==
  pc = "exec_done" => result.status = "ok" /\ Len(result.logs) = Len(acts)

\* the operand of the action is the number zero
ZeroBy(action) ==
  action.op = "divide" /\ action.hasArg /\ action.arg \in {IntV(0), FloatV(0)}

\* C13: an execution of DIVIDE actions whose operands are zero returns
\* without raising, leaves the context as it was (the field with its value,
\* or absent), and returns one DIVIDE log line for each action.
C13_DivideByZeroKeepsContext ==
  [][ (pc = "exec" /\ pc' = "exec_done" /\ \A i \in 1..Len(acts) : ZeroBy(acts[i]))
        => /\ result'.status = "ok"
           /\ Deep(heap', RefV(ctx)) = Deep(heap, RefV(ctx))
           /\ result'.logs = [i \in 1..Len(acts) |->
                                LogLine(ExecRuleId, "DIVIDE", acts[i].field, <<>>)]
    ]_vars

\* a DIVIDE by zero has run on a context whose field holds a number, and
\* one on a context without the field
C13_Witness ==
  /\ pc = "exec_done"
  /\ acts = <<DivideByZero, DivideTierByZero>>
  /\ HasKey(heap[ctx].ent, K_x)
  /\ ~HasKey(heap[ctx].ent, K_tier)
  /\ DictGet(heap[ctx].ent, K_x, NullV) = IntV(7)
  /\ result.status = "ok"

\* --------------------------------------------------- the batch endpoint

\* an arithmetic action on a field that some records fill with a str
TextArith ==
  Text("all",
    << Rule("scale", TRUE, 10, TRUE, StrV(C_x_gt_0),
            <<Action("multiply", K_tier, TRUE, IntV(2))>>),
       Rule("tag", TRUE, 20, TRUE, StrV(C_x_ge_0),
            <<Action("append", K_tags, TRUE, StrV(<<"t">>))>>) >>)

BatchTextSet == {TextArith, TextList}

\* the records of the requests
BatchRecordSet ==
  { DictV(<<Entry(K_x, IntV(7))>>),
    DictV(<<Entry(K_x, IntV(1)), Entry(K_tier, StrV(<<"h", "i">>))>>),
    DictV(<<Entry(K_x, IntV(0)), Entry(K_tier, StrV(<<"h", "i">>))>>) }

\* the request bodies: a list of at most MaxCalls records, or no list
BatchSet ==
  { [name |-> n, isList |-> TRUE, records |-> r] :
      n \in Names,
      r \in UNION {[1..k -> BatchRecordSet] : k \in 0..MaxCalls} }
  \cup { [name |-> n, isList |-> FALSE, records |-> <<>>] : n \in Names }

\* the server with one document and a batch request received
BatchInit ==
  /\ batch \in BatchSet
  /\ results = <<>>
  /\ heap = <<>>
  /\ files \in [Names -> {File(t, 0) : t \in BatchTextSet}]
  /\ clock = 0
  /\ docs = <<>>
  /\ cache = [n \in Names |-> 0]
  /\ pc = "idle"
  /\ call = [name |-> "", input |-> NullV, force_reload |-> FALSE, doc |-> 0,
             saves |-> 0, ctx0 |-> NullV]
  /\ ctx = 0
  /\ idx = 1
  /\ rules_fired = <<>>
  /\ rules_skipped = <<>>
  /\ execution_log = <<>>
  /\ result = NoResult
  /\ inputBefore = NullV
  /\ loadedSnap = <<>>
  /\ prev = NoPrev
  /\ ncalls = 0
  /\ nsaves = 0
  /\ lastSave = [name |-> "", text |-> TextNoRules, status |-> "none",
                 rule_count |-> 0, cachedBefore |-> 0, ncalls |-> 0]
  /\ expr = <<>>
  /\ verdict = FALSE
  /\ NoThreads
  /\ acts = <<>>
  /\ listing = <<>>
  /\ rulesets = <<>>

batchVars == <<heap, files, clock, docs, cache, call, ctx, idx, rules_fired,
               rules_skipped, execution_log, inputBefore, loadedSnap, prev,
               ncalls, nsaves, lastSave, expr, verdict, thr, history, doneIdx,
               nops, acts, batch, listing, rulesets>>

\* if not isinstance(records, list): return err(...)
BatchReject ==
  /\ pc = "idle"
  /\ ~batch.isList
  /\ pc' = "responded"
  /\ result' = [status |-> "error"]
  /\ UNCHANGED results
  /\ UNCHANGED batchVars

\* r = engine.evaluate(name, record) for the next record of the list
BatchCall ==
  /\ pc = "idle"
  /\ batch.isList
  /\ Len(results) < Len(batch.records)
  /\ EvaluateStart(batch.name, batch.records[Len(results) + 1], FALSE)

\* where the loop stands after a record: it goes on, whether the call
\* returned or raised
AfterRecord_abort(failed) == IF failed THEN "aborted" ELSE "idle"
AfterRecord(failed) == "idle"

\* results.append(...): the entry of a call that returned, or in the except
\* branch the entry with the error
BatchCollect ==
  /\ pc \in {"returned", "raised"}
  /\ results' = Append(results,
        IF pc = "returned"
        THEN [index |-> Len(results), input |-> call.input, error |-> FALSE,
              output |-> ctx, rules_fired |-> result.rules_fired]
        ELSE [index |-> Len(results), input |-> call.input, error |-> TRUE,
              output |-> 0, rules_fired |-> <<>>])
  /\ pc' = AfterRecord(pc = "raised")
  /\ UNCHANGED result
  /\ UNCHANGED batchVars

\* return ok({"results": results, ...}): the entries as jsonify writes them
BatchRespond ==
  /\ pc = "idle"
  /\ batch.isList
  /\ Len(results) = Len(batch.records)
  /\ pc' = "responded"
  /\ result' = [status |-> "ok",
                results |-> [i \in 1..Len(results) |->
                   [index |-> results[i].index,
                    input |-> Deep(heap, results[i].input),
                    error |-> results[i].error,
                    output |-> IF results[i].error THEN NullV
                               ELSE Deep(heap, RefV(results[i].output)),
                    rules_fired |-> results[i].rules_fired]],
                total_records |-> Len(batch.records),
                ruleset |-> batch.name]
  /\ UNCHANGED results
  /\ UNCHANGED batchVars

BatchNext ==
  \/ BatchReject
  \/ BatchCall
  \/ EvaluateRule
  \/ EvaluateReturn
  \/ BatchCollect
  \/ BatchRespond

SpecBatch == BatchInit /\ [][BatchNext]_vars

\* C15: the batch collects one entry per record evaluated so far, in the
\* order of the records, each with its index and its record; the entry
\* carries the error exactly when the evaluate call of that record raised,
\* and otherwise the context and the fired rules that call returned; the
\* response holds an entry for every record of the request.
C15_BatchFailureIsolated ==
  /\ []( /\ Len(results) <= Len(batch.records)
         /\ \A i \in 1..Len(results) :
              /\ results[i].index = i - 1
              /\ Deep(heap, results[i].input) = batch.records[i]
         /\ (pc \in {"responded", "aborted"} /\ batch.isList)
              => /\ pc = "responded"
                 /\ Len(results) = Len(batch.records)
                 /\ Len(result.results) = Len(batch.records) )
  /\ [][ Len(results') = Len(results) + 1
           => LET e == results'[Len(results')]
              IN /\ e.error <=> (pc = "raised")
                 /\ ~e.error => /\ e.output = ctx
                                /\ e.rules_fired = result.rules_fired
                                /\ result.status = "ok" ]_vars

\* a batch has answered with the error in the first entry and the normal
\* result of the second record, whose rules fired, in the second
C15_Witness ==
  /\ pc = "responded"
  /\ batch.isList
  /\ Len(result.results) = 2
  /\ result.results[1].error
  /\ ~result.results[2].error
  /\ result.results[2].rules_fired # <<>>
  /\ result.results[2].output.kind = "dict"

\* ------------------------------------------------------- list_rulesets

\* the rulesets a rules directory may hold as <name>.yaml
ListNames == {"auto", "home"}

\* a document with `rules:` and nothing after it
TextNullRules == [form |-> "map", hasRuleset |-> TRUE, mode |-> "all",
                  rulesKind |-> "null", rules |-> <<>>]

\* what a <name>.yaml holds: a document, a text without `rules`, an empty
\* file, a document whose rules are null
ListTextSet == {TextFirst, TextNoRules, TextEmpty, TextNullRules}

\* a directory entry: the file name as name and extension
DirEntry(name, ext) == [name |-> name, ext |-> ext]

\* entries that are there whatever <name>.yaml files exist: a .yml file,
\* whose name may or may not have a .yaml sibling, and a file that is no
\* document
ListExtras == {DirEntry("home", "yml"), DirEntry("notes", "txt")}

\* what the directory holds
Directory ==
  {DirEntry(n, "yaml") : n \in {m \in ListNames : files[m].exists}} \cup ListExtras

\* the orders os.listdir may return a set of entries in
Orders(S) ==
  {o \in [1..Cardinality(S) -> S] : \A e \in S : \E i \in 1..Cardinality(S) : o[i] = e}

\* an engine on a rules directory, nothing loaded yet
ListInit ==
  /\ files \in [ListNames -> {NoFile} \cup {File(t, 0) : t \in ListTextSet}]
  /\ cache = [n \in ListNames |-> 0]
  /\ heap = <<>>
  /\ clock = 0
  /\ docs = <<>>
  /\ pc = "idle"
  /\ call = [name |-> "", input |-> NullV, force_reload |-> FALSE, doc |-> 0,
             saves |-> 0, ctx0 |-> NullV]
  /\ ctx = 0
  /\ idx = 1
  /\ rules_fired = <<>>
  /\ rules_skipped = <<>>
  /\ execution_log = <<>>
  /\ result = NoResult
  /\ inputBefore = NullV
  /\ loadedSnap = <<>>
  /\ prev = NoPrev
  /\ ncalls = 0
  /\ nsaves = 0
  /\ lastSave = [name |-> "", text |-> TextNoRules, status |-> "none",
                 rule_count |-> 0, cachedBefore |-> 0, ncalls |-> 0]
  /\ expr = <<>>
  /\ verdict = FALSE
  /\ NoThreads
  /\ NoRequests

listVars == <<files, clock, call, ctx, rules_fired, rules_skipped, execution_log,
              inputBefore, prev, ncalls, nsaves, lastSave, expr, verdict, thr,
              history, doneIdx, nops, acts, batch, results>>

\* rulesets = []; os.listdir(self.rules_dir)
ListStart ==
  /\ pc = "idle"
  /\ listing' \in Orders(Directory)
  /\ rulesets' = <<>>
  /\ idx' = 1
  /\ pc' = "listing"
  /\ UNCHANGED <<heap, docs, cache, loadedSnap, result>>
  /\ UNCHANGED listVars

\* fname.endswith(".yaml") or fname.endswith(".yml")
IsDocument_yamlOnly(entry) == entry.ext = "yaml"
IsDocument(entry) == entry.ext \in {"yaml", "yml"}

\* the summary of a loaded document, and the one of a failed load
Summary(name, doc) ==
  [id |-> name, error |-> FALSE, rule_count |-> Len(doc.rules),
   priority_mode |-> doc.priority_mode,
   keys |-> {"id", "name", "description", "version", "author", "rule_count",
             "priority_mode"}]
ErrorSummary(name, status) ==
  [id |-> name, error |-> TRUE, rule_count |-> 0, priority_mode |-> status,
   keys |-> {"id", "error"}]

\* one iteration of `for fname in os.listdir(...)`: a file that is no
\* document is passed over; a document is loaded by its name without the
\* extension, and its summary or the error is appended
ListFile ==
  LET entry == listing[idx]
      ld == load_ruleset(heap, entry.name, FALSE)
  IN /\ pc = "listing"
     /\ idx <= Len(listing)
     /\ idx' = idx + 1
     /\ IF ~IsDocument(entry)
        THEN UNCHANGED <<heap, docs, cache, loadedSnap, rulesets>>
        ELSE /\ heap' = ld.h
             /\ docs' = ld.docs
             /\ cache' = ld.cache
             /\ loadedSnap' = ld.loadedSnap
             /\ rulesets' = Append(rulesets,
                   IF ld.status = "ok" THEN Summary(entry.name, ld.docs[ld.doc])
                   ELSE ErrorSummary(entry.name, ld.status))
     /\ UNCHANGED <<pc, listing, result>>
     /\ UNCHANGED listVars

\* return rulesets
ListReturn ==
  /\ pc = "listing"
  /\ idx > Len(listing)
  /\ pc' = "listed"
  /\ result' = [status |-> "ok", rulesets |-> rulesets]
  /\ UNCHANGED <<heap, docs, cache, loadedSnap, idx, listing, rulesets>>
  /\ UNCHANGED listVars

ListNext ==
  \/ ListStart
  \/ ListFile
  \/ ListReturn

SpecList == ListInit /\ [][ListNext]_vars

\* the document files of the listing, in its order
RECURSIVE DocumentFiles(_)
DocumentFiles(l) ==
  IF l = <<>> THEN <<>>
  ELSE (IF Head(l).ext = "yaml" \/ Head(l).ext = "yml" THEN <<Head(l)>> ELSE <<>>)
       \o DocumentFiles(Tail(l))

\* <name>.yaml exists and holds a mapping with `ruleset` and a rule list
Loadable(name) ==
  /\ files[name].exists
  /\ files[name].text.form = "map"
  /\ files[name].text.hasRuleset
  /\ files[name].text.rulesKind = "list"

\* C16: list_rulesets returns one summary per document file of the
\* directory, in the order of the listing, each with the file's name without
\* extension as id; the summary of a document that cannot be loaded holds
\* its id and the error only, and that of a loadable one its rule count.
C16_OneSummaryPerDocument ==
  pc = "listed" =>
    LET d == DocumentFiles(listing)
    IN /\ Len(result.rulesets) = Len(d)
       /\ \A i \in 1..Len(d) :
            LET r == result.rulesets[i]
            IN /\ r.id = d[i].name
               /\ r.error <=> ~Loadable(d[i].name)
               /\ r.error => r.keys = {"id", "error"}
               /\ ~r.error => /\ r.rule_count = Len(files[d[i].name].text.rules)
                              /\ "error" \notin r.keys

\* a listing has returned in which a document that fails to load comes
\* before one that loads, with a .yml file among them
C16_Witness ==
  /\ pc = "listed"
  /\ Len(result.rulesets) = 3
  /\ result.rulesets[1].error
  /\ ~result.rulesets[2].error
  /\ \E i \in 1..Len(listing) : listing[i].ext = "yml"

\* ------------------------- an evaluation pass beside a saving, loading thread

\* the document on file when the server starts, and the one saved over it
PassTextSet == {TextChain}
PassSaveSet == {TextFirst}
PassInputSet == { DictV(<<Entry(K_x, IntV(7))>>) }

\* the thread that evaluates, and the thread that saves and reloads
Evaluator == 1
Editor == 2

PassInit ==
  /\ heap = <<>>
  /\ files \in [Names -> {File(t, 0) : t \in PassTextSet}]
  /\ clock = 0
  /\ docs = <<>>
  /\ cache = [n \in Names |-> 0]
  /\ pc = "idle"
  /\ call = [name |-> "", input |-> NullV, force_reload |-> FALSE, doc |-> 0,
             saves |-> 0, ctx0 |-> NullV]
  /\ ctx = 0
  /\ idx = 1
  /\ rules_fired = <<>>
  /\ rules_skipped = <<>>
  /\ execution_log = <<>>
  /\ result = NoResult
  /\ inputBefore = NullV
  /\ loadedSnap = <<>>
  /\ prev = NoPrev
  /\ ncalls = 0
  /\ nsaves = 0
  /\ lastSave = [name |-> "", text |-> TextNoRules, status |-> "none",
                 rule_count |-> 0, cachedBefore |-> 0, ncalls |-> 0]
  /\ expr = <<>>
  /\ verdict = FALSE
  /\ NoThreads
  /\ NoRequests

\* evaluate(ruleset_name, input_data, force_reload) is called: the caller's
\* record exists, and the thread enters load_ruleset
PassBegin(name, input, force_reload) ==
  LET b == Build(heap, input)
  IN /\ pc = "idle"
     /\ thr[Evaluator].pc = "idle"
     /\ nops < MaxOps
     /\ nops' = nops + 1
     /\ heap' = b.h
     /\ inputBefore' = input
     /\ call' = [name |-> name, input |-> b.v, force_reload |-> force_reload,
                 doc |-> 0, saves |-> nsaves, ctx0 |-> NullV]
     /\ pc' = "loading"
     /\ thr' = [thr EXCEPT ![Evaluator] =
                  [IdleThread EXCEPT !.pc = "stat", !.op = "load", !.name = name,
                                     !.force_reload = force_reload,
                                     !.after = doneIdx]]
     /\ UNCHANGED <<files, clock, docs, cache, loadedSnap, history, doneIdx>>
     /\ UNCHANGED <<ctx, idx, rules_fired, rules_skipped, execution_log, result,
                    prev, ncalls, nsaves, lastSave, expr, verdict, acts, batch,
                    results, listing, rulesets>>

\* load_ruleset has returned or raised: the rules and the mode are taken
\* from the document returned, the record is copied, the lists are empty
PassStart ==
  LET cp == deepcopy(heap, call.input)
      h == SetDefaultTags(cp.h, cp.v.n)
  IN /\ pc = "loading"
     /\ thr[Evaluator].pc = "done"
     /\ ncalls' = ncalls + 1
     /\ rules_fired' = <<>>
     /\ rules_skipped' = <<>>
     /\ execution_log' = <<>>
     /\ idx' = 1
     /\ IF thr[Evaluator].status = "ok"
        THEN /\ heap' = h
             /\ ctx' = cp.v.n
             /\ call' = [call EXCEPT !.doc = thr[Evaluator].doc,
                                     !.ctx0 = Deep(h, cp.v)]
             /\ pc' = "loop"
             /\ result' = NoResult
        ELSE /\ pc' = "raised"
             /\ result' = [status |-> thr[Evaluator].status]
             /\ UNCHANGED <<heap, ctx, call>>
     /\ UNCHANGED <<files, clock, docs, cache, loadedSnap, inputBefore, prev,
                    nsaves, lastSave>>
     /\ UNCHANGED auxVars

PassNext ==
  \/ \E name \in Names, input \in PassInputSet, force_reload \in BOOLEAN :
       PassBegin(name, input, force_reload)
  \/ PassStart
  \/ EvaluateRule
  \/ EvaluateReturn
  \/ \E name \in Names, force_reload \in BOOLEAN :
       LoadBegin(Editor, name, force_reload)
  \/ \E name \in Names, text \in PassSaveSet : SaveBegin(Editor, name, text)
  \/ \E t \in Threads : LoadStat(t)
  \/ \E t \in Threads : LoadCheck(t)
  \/ \E t \in Threads : LoadRead(t)
  \/ \E t \in Threads : LoadStore(t)
  \/ SaveOpen(Editor)
  \/ SaveWrite(Editor)
  \/ SaveEvict(Editor)
  \/ SaveReturn(Editor)
  \/ StoreTick

\* two threads of one process share the engine
SpecPass == PassInit /\ [][PassNext]_vars

\* a rule without the payloads of its actions
Outline(rule) ==
  [rule EXCEPT !.actions = [j \in 1..Len(rule.actions) |->
                              [rule.actions[j] EXCEPT !.arg = NullV]]]
OutlineOf(rules) == [i \in 1..Len(rules) |-> Outline(rules[i])]

\* C21: from its first rule to its return a pass holds one document object,
\* the one its load returned; that object keeps the rule sequence, the
\* order and the priority_mode it was loaded with, whatever is saved and
\* reloaded meanwhile; the rules the pass has visited are the first rules
\* of that sequence, in order, and the mode and the rule total it returns
\* are those of that document.
C21_PassSeesOneDocument ==
  /\ []( (pc \in {"loop", "after", "returned"}) =>
           LET snap == loadedSnap[call.doc].doc
           IN /\ call.doc = thr[Evaluator].doc
              /\ OutlineOf(docs[call.doc].rules) = OutlineOf(snap.rules)
              /\ docs[call.doc].priority_mode = snap.priority_mode
              /\ Len(execution_log) <= Len(snap.rules)
              /\ \A i \in 1..Len(execution_log) :
                   execution_log[i].rule_id = snap.rules[i].id
              /\ pc = "returned" =>
                   /\ result.priority_mode = snap.priority_mode
                   /\ result.rules_total = Len(snap.rules)
                   /\ snap.priority_mode = "all"
                        => Len(execution_log) = Len(snap.rules) )
  /\ [][ (pc \in {"loop", "after"}) => call'.doc = call.doc ]_vars

\* a pass stands between two rules of its document while the cache holds
\* another document, which the other thread loaded after the pass's load
\* from a text saved over the one the pass was loaded from
C21_Witness ==
  /\ pc = "loop"
  /\ Len(execution_log) >= 1
  /\ idx <= Len(PassRules)
  /\ cache[call.name] \notin {0, call.doc}
  /\ cache[call.name] > call.doc
  /\ loadedSnap[cache[call.name]].text # loadedSnap[call.doc].text
  /\ thr[Editor].op = "load"
  /\ thr[Editor].pc = "done"
  /\ thr[Editor].doc = cache[call.name]

\* ------------------------------------------- saves of every kind of text

\* what the editor may send: a document, a text without `rules`, a text
\* whose `rules` is null, and a text that loads as None
SaveTextSet == {TextFirst, TextNoRules, TextNullRules, TextEmpty}
SaveInputSet == { DictV(<<Entry(K_x, IntV(7))>>) }

SaveInit ==
  /\ heap = <<>>
  /\ files \in [Names -> {File(t, 0) : t \in {TextChain}}]
  /\ clock = 0
  /\ docs = <<>>
  /\ cache = [n \in Names |-> 0]
  /\ pc = "idle"
  /\ call = [name |-> "", input |-> NullV, force_reload |-> FALSE, doc |-> 0,
             saves |-> 0, ctx0 |-> NullV]
  /\ ctx = 0
  /\ idx = 1
  /\ rules_fired = <<>>
  /\ rules_skipped = <<>>
  /\ execution_log = <<>>
  /\ result = NoResult
  /\ inputBefore = NullV
  /\ loadedSnap = <<>>
  /\ prev = NoPrev
  /\ ncalls = 0
  /\ nsaves = 0
  /\ lastSave = [name |-> "", text |-> TextNoRules, status |-> "none",
                 rule_count |-> 0, cachedBefore |-> 0, ncalls |-> 0]
  /\ expr = <<>>
  /\ verdict = FALSE
  /\ NoThreads
  /\ NoRequests

SaveNext ==
  \/ \E name \in Names, input \in SaveInputSet, force_reload \in BOOLEAN :
       EvaluateStart(name, input, force_reload)
  \/ EvaluateRule
  \/ EvaluateReturn
  \/ \E name \in Names, text \in SaveTextSet, now \in clock..MaxClock :
       SaveRuleset(name, text, now)

SpecSave == SaveInit /\ [][SaveNext]_vars

\* C22: a save that raises leaves the files and the cache as they were; a
\* save that returns has written its text and evicted the cache entry.
C22_SaveAllOrNothing ==
  [][ (nsaves' = nsaves + 1) =>
        IF lastSave'.status = "ok"
        THEN /\ files'[lastSave'.name].text = lastSave'.text
             /\ cache'[lastSave'.name] = 0
        ELSE files' = files /\ cache' = cache ]_vars

\* ------------------------------------------------------------ LOG actions

\* the message with every placeholder of a key of the context replaced by
\* the str of its value, in one scan from left to right that does not look
\* at the text it has put in
RECURSIVE SinglePass(_, _, _)
SinglePass(msg, h, ent) ==
  IF msg = <<>> THEN <<>>
  ELSE LET hits == {i \in 1..Len(ent) :
                      StartsWith(msg, <<"{">> \o ent[i].k \o <<"}">>)}
       IN IF hits = {} THEN <<Head(msg)>> \o SinglePass(Tail(msg), h, ent)
          ELSE LET i == CHOOSE i \in hits : TRUE
               IN PyStr(Deep(h, ent[i].v), FALSE)
                  \o SinglePass(SubSeq(msg, Len(ent[i].k) + 3, Len(msg)), h, ent)

\* C23: the execution of a LOG action returns the one line that holds the
\* message with its placeholders replaced in a single pass, and leaves the
\* context as it was.
C23_LogSinglePass ==
  [][ (pc = "exec" /\ Len(acts) = 1 /\ acts[1].op = "log") =>
        /\ result'.status = "ok"
        /\ result'.logs =
             <<LogLine(ExecRuleId, "LOG", <<>>,
                       SinglePass(PyStr(Deep(heap, acts[1].arg), FALSE),
                                  heap, heap[ctx].ent))>>
        /\ heap' = heap
        /\ ctx' = ctx ]_vars

\* -------------------------------------------------- one line per action

\* the word a log line of the operation starts with
OpWord(op) ==
  CASE op = "set" -> "SET"
    [] op = "multiply" -> "MULTIPLY"
    [] op = "add" -> "ADD"
    [] op = "subtract" -> "SUBTRACT"
    [] op = "divide" -> "DIVIDE"
    [] op = "append" -> "APPEND"
    [] op = "log" -> "LOG"
    [] OTHER -> "?"

\* C24: every execution returns a list with one log line for each
\* descriptor of the action list, the i-th line being that of the i-th
\* action.
C24_OneLinePerAction ==
  pc = "exec_done" =>
    /\ result.status = "ok"
    /\ Len(result.logs) = Len(acts)
    /\ \A i \in 1..Len(acts) : result.logs[i].op = OpWord(acts[i].op)

====
